---- MODULE Spec2Model ----
(***************************************************************************)
(* The String family of TestCowStrings (test.cpp, common-test.h) and the   *)
(* fixed-block allocator FastArena (test.h), as a state machine.           *)
(*                                                                         *)
(* One behaviour runs one variant (the namespace the harness instantiates  *)
(* Test<S> with).  Every member function is an operator from machine state *)
(* to machine state, written statement by statement from its body; an      *)
(* action of the specification applies one public member function to one   *)
(* String handle.                                                          *)
(*                                                                         *)
(* Memory.  Pointers are numbers, Null is the null pointer.  A pointer     *)
(* into a FastArena is the byte offset from buf_ of the block's payload;   *)
(* a pointer from the general heap (new char[]) is an opaque identifier.   *)
(* A char array is the sequence of its cells over its whole capacity; a    *)
(* cell nobody has written holds Uninit, and reading such a cell yields    *)
(* any character.  A member function that runs several statements is      *)
(* written as nested LETs, each naming the state one statement leaves.     *)
(***************************************************************************)
EXTENDS Integers, Sequences, FiniteSets, TLC

\* ------------------------------------------------------------------ bounds
\* Longest String the driver builds under Spec.
MaxLen == 1
\* The values the driver lets nCopies and nAllocs reach under Spec.
MaxCopies == 1
MaxAllocs == 3
\* Longest String the driver builds under SpecMark.
MarkLen == 2
\* Longest String the driver builds under SpecBuild.
BuildLen == 9
\* Longest String the driver builds under SpecLong.
LongLen == 2845

Chars == {"a", "b"}
Uninit == "?"

Variants ==
  {"Plain", "Plain_FastAlloc", "COW_Unsafe", "COW_AtomicInt",
   "COW_AtomicInt2", "COW_CritSec", "COW_Mutex"}
\* The variants that include common-test.h.
CommonVariants == {"COW_Unsafe", "COW_AtomicInt", "COW_CritSec", "COW_Mutex"}
CowVariants == CommonVariants \cup {"COW_AtomicInt2"}
FastAllocVariants == CommonVariants \cup {"Plain_FastAlloc"}

\* ------------------------------------------------------- program constants
Null == 0
\* The local String of COW_AtomicInt2::String::Clear.
Tmp == 0
SizeofLong == 4
\* sizeof(StringBuf) of a 32-bit build: char*, size_t, size_t, long.
SizeofStringBuf == 16
\* FastArena::size, the number of blocks.
size == 100
\* The default block size of FastArena's constructor.
DefaultN == 3000

VARIABLES
  variant,   \* the namespace under test
  live,      \* the constructed String objects (handles)
  data_,     \* COW variants: String::data_ of each handle
  buf_,      \* Plain variants: String::buf_
  len_,      \* Plain variants: String::len_
  used_,     \* Plain variants: String::used_
  heap,      \* objects of the general heap: pointer -> char array or glommed buffer
  fa,        \* FastArena: the in-use marker of each block that is not 0
  blk,       \* the objects living in arena blocks: pointer -> StringBuf or char array
  nCopies,   \* String::nCopies
  nAllocs,   \* String::nAllocs
  failed,    \* bad_alloc was thrown: nothing catches it, the process ends
  ub,        \* a freed or never allocated object was used
  built,     \* SpecBuild: the characters appended to handle 1, in order
  indexed,   \* the Strings operator[] was called on since they were
             \* constructed or last cleared
  last,      \* the last operation the driver ran
  thr        \* the threads: where each one is in the member function it runs,
             \* and that function's locals; the callers of the arena and what
             \* they hold; under SpecPair the machine state of COW_AtomicInt2

vars ==
  <<variant, live, data_, buf_, len_, used_, heap, fa, blk, nCopies, nAllocs,
    failed, ub, built, indexed, last, thr>>

\* The machine state the member functions work on; ret is the value the last
\* allocation returned.
W ==
  [live |-> live, data_ |-> data_, buf_ |-> buf_, len_ |-> len_, used_ |-> used_,
   heap |-> heap, fa |-> fa, blk |-> blk, nCopies |-> nCopies,
   nAllocs |-> nAllocs, failed |-> failed, ub |-> ub, ret |-> Null]

Commit(w) ==
  /\ live' = w.live
  /\ data_' = w.data_
  /\ buf_' = w.buf_
  /\ len_' = w.len_
  /\ used_' = w.used_
  /\ heap' = w.heap
  /\ fa' = w.fa
  /\ blk' = w.blk
  /\ nCopies' = w.nCopies
  /\ nAllocs' = w.nAllocs
  /\ failed' = w.failed
  /\ ub' = w.ub

Max(a, b) == IF a >= b THEN a ELSE b

\* f without the point p.
Without(f, p) == [x \in DOMAIN f \ {p} |-> f[x]]

\* ------------------------------------------------------------ char arrays
\* new char[n]: n cells nobody has written.
NewChars(n) == [i \in 1..n |-> Uninit]

\* Fault: nothing is copied.
Memcpy_none(dst, src, k) == dst

\* memcpy(dst, src, k) on the cells of two arrays.
Memcpy(dst, src, k) ==
  [i \in 1..Len(dst) |-> IF i <= k /\ i <= Len(src) THEN src[i] ELSE dst[i]]

\* Fault: the capacity is not rounded.
RoundUp4_none(needed) == needed

\* needed -> newlen of every Reserve and of Clone: round up to a multiple of 4.
RoundUp4(needed) == IF needed # 0 THEN 4 * ((needed - 1) \div 4 + 1) ELSE 0

\* static_cast<size_t>(max(len*1.5, static_cast<double>(n)))
Needed(len, n) == Max((len * 3) \div 2, n)

\* ----------------------------------------------------------- general heap
\* new: the object lands at an address no live object has.
HeapNew(w, obj) ==
  LET p == CHOOSE q \in 1..(Cardinality(DOMAIN w.heap) + 1) : q \notin DOMAIN w.heap
  IN  [w EXCEPT !.heap = (p :> obj) @@ @, !.ret = p]

\* Fault: delete[] without the null-pointer case.
HeapDelete_nonull(w, p) ==
  IF p \notin DOMAIN w.heap THEN [w EXCEPT !.ub = TRUE]
  ELSE [w EXCEPT !.heap = Without(@, p)]

\* delete[] p: nothing for a null pointer; releasing what is not allocated is
\* undefined.
HeapDelete(w, p) ==
  IF p = Null THEN w
  ELSE IF p \notin DOMAIN w.heap THEN [w EXCEPT !.ub = TRUE]
  ELSE [w EXCEPT !.heap = Without(@, p)]

\* memcpy( dst, src, k ) between two char arrays of the general heap.
HeapMemcpy(w, dst, src, k) ==
  IF k = 0 THEN w
  ELSE IF dst \notin DOMAIN w.heap \/ src \notin DOMAIN w.heap THEN [w EXCEPT !.ub = TRUE]
  ELSE [w EXCEPT !.heap[dst] = Memcpy(@, w.heap[src], k)]

\* -------------------------------------------------------------- FastArena
\* n_ of the constructor: the chunk size made a multiple of 4.
FastArena_n(n) == IF n # 0 THEN 4 * ((n - 1) \div 4 + 1) ELSE 4

\* The arena of the variant under test: Plain_FastAlloc::String::fa takes the
\* default size, the fa of common-test.h takes sizeof(StringBuf).
ArenaN ==
  IF variant = "Plain_FastAlloc" THEN FastArena_n(DefaultN)
  ELSE FastArena_n(SizeofStringBuf)

\* A block is its marker (a long) and n_ bytes; there are `size` of them.
Stride == ArenaN + SizeofLong
ArenaEnd == Stride * size
BlockStarts == {b * Stride : b \in 0..(size - 1)}

\* The constructor zeroes every marker; fa keeps the markers that are not 0.
FastArena_Init == <<>>
Marker(m, p) == IF p \in DOMAIN m THEN m[p] ELSE 0
SetMarker(m, p, v) == IF v = 0 THEN Without(m, p) ELSE (p :> v) @@ m

\* while( p < end && *((long*)p) != 0 ) p += (n_+sizeof(long));
RECURSIVE Scan(_, _)
Scan(m, p) == IF p < ArenaEnd /\ Marker(m, p) # 0 THEN Scan(m, p + Stride) ELSE p

\* The scan of Allocate: the first block whose marker is 0, or the arena's end.
FirstFree(m) == Scan(m, 0)

\* Fault: Allocate without the test of n against n_.
FastArena_Allocate_anysize(w, n) ==
  IF FirstFree(w.fa) >= ArenaEnd THEN [w EXCEPT !.failed = TRUE, !.ret = Null]
  ELSE [w EXCEPT !.fa = SetMarker(@, FirstFree(w.fa), Marker(@, FirstFree(w.fa)) + 1),
                 !.ret = FirstFree(w.fa) + SizeofLong]

\* Fault: Allocate hands out the block and leaves its marker at 0.
FastArena_Allocate_nomark(w, n) ==
  IF n > ArenaN THEN [w EXCEPT !.failed = TRUE, !.ret = Null]
  ELSE IF FirstFree(w.fa) >= ArenaEnd THEN [w EXCEPT !.failed = TRUE, !.ret = Null]
  ELSE [w EXCEPT !.ret = FirstFree(w.fa) + SizeofLong]

FastArena_Allocate(w, n) ==
  IF n > ArenaN THEN [w EXCEPT !.failed = TRUE, !.ret = Null]
  ELSE IF FirstFree(w.fa) >= ArenaEnd THEN [w EXCEPT !.failed = TRUE, !.ret = Null]
  ELSE [w EXCEPT !.fa = SetMarker(@, FirstFree(w.fa), Marker(@, FirstFree(w.fa)) + 1),
                 !.ret = FirstFree(w.fa) + SizeofLong]

\* Fault: Deallocate that leaves the marker as it is.
FastArena_Deallocate_keep(w, p) ==
  IF p = Null THEN w
  ELSE IF p < 0 \/ p > ArenaEnd THEN [w EXCEPT !.failed = TRUE]
  ELSE IF (p - SizeofLong) \notin BlockStarts THEN [w EXCEPT !.ub = TRUE]
  ELSE w

FastArena_Deallocate(w, p) ==
  IF p = Null THEN w
  ELSE IF p < 0 \/ p > ArenaEnd THEN [w EXCEPT !.failed = TRUE]
  ELSE IF (p - SizeofLong) \notin BlockStarts THEN [w EXCEPT !.ub = TRUE]
  ELSE [w EXCEPT !.fa = SetMarker(@, p - SizeofLong, Marker(@, p - SizeofLong) - 1)]

\* ------------------------------------------------- atomic integer primitive
IntAtomicCompare(i, v) == IF i < v THEN 0 - 1 ELSE IF i = v THEN 0 ELSE 1
\* Fault: the increment is lost.
IntAtomicIncrement_lost(i) == i
IntAtomicIncrement(i) == i + 1
IntAtomicDecrement(i) == i - 1

\* ------------------------------------------------------------------- Lock
\* Lock<T>::Lock on the cs / m of the StringBuf at p.
Lock_ctor(w, p) == [w EXCEPT !.blk[p].cs = TRUE]

\* Fault: Unlock without the test of bLocked_.
Lock_Unlock_always(w, p, bLocked_) == [w EXCEPT !.blk[p].cs = FALSE]

\* Lock<T>::Unlock: releases only while bLocked_.
Lock_Unlock(w, p, bLocked_) == IF bLocked_ THEN [w EXCEPT !.blk[p].cs = FALSE] ELSE w

\* ------------------------------------------------ StringBuf (common-test.h)
\* StringBuf::StringBuf(): buf(0), len(0), used(0), refs(1).
StringBuf_ctor == [buf |-> Null, len |-> 0, used |-> 0, refs |-> 1, cs |-> FALSE]

\* Fault: the array is allocated, the counter is not touched.
StringBuf_newbuf_uncounted(w, newlen) ==
  IF newlen # 0 THEN HeapNew(w, NewChars(newlen))
  ELSE [w EXCEPT !.ret = Null]

\* newlen ? (++String::nAllocs, new char[ newlen ]) : 0
StringBuf_newbuf(w, newlen) ==
  IF newlen # 0 THEN HeapNew([w EXCEPT !.nAllocs = @ + 1], NewChars(newlen))
  ELSE [w EXCEPT !.ret = Null]

\* StringBuf::Reserve on the StringBuf at p.
StringBuf_Reserve(w, p, n) ==
  IF w.blk[p].len < n
  THEN LET newlen == RoundUp4(Needed(w.blk[p].len, n))
           Take(w1) ==
             LET newbuf == w1.ret
                 buf == w1.blk[p].buf
                 Copied(w2) ==
                   [HeapDelete(w2, buf) EXCEPT !.blk[p].buf = newbuf,
                                               !.blk[p].len = newlen]
             IN  Copied(IF buf # Null
                        THEN HeapMemcpy(w1, newbuf, buf, w1.blk[p].used)
                        ELSE w1)
       IN  Take(StringBuf_newbuf(w, newlen))
  ELSE w

\* new StringBuf: operator new takes a block of fa, then the default constructor.
StringBuf_new(w) ==
  LET Construct(w1) ==
        IF w1.failed THEN w1
        ELSE [w1 EXCEPT !.blk = (w1.ret :> StringBuf_ctor) @@ @]
  IN  Construct(FastArena_Allocate(w, SizeofStringBuf))

\* The body of StringBuf( other, n ) on the fresh StringBuf at p: Reserve,
\* then memcpy( buf, other.buf, used ) with this->used, still 0, then used.
StringBuf_copy_body(w, p, other, n) ==
  LET Filled(w2) ==
        [HeapMemcpy(w2, w2.blk[p].buf, w2.blk[other].buf, w2.blk[p].used)
           EXCEPT !.blk[p].used = w2.blk[other].used, !.ret = p]
  IN  Filled(StringBuf_Reserve(w, p, Max(w.blk[other].len, n)))

\* new StringBuf( other, n ).
StringBuf_copy(w, other, n) ==
  LET Body(w1) == IF w1.failed THEN w1 ELSE StringBuf_copy_body(w1, w1.ret, other, n)
  IN  Body(StringBuf_new(w))

\* Fault: Clear leaves the buffer as it is.
StringBuf_Clear_keep(w, p) == w

\* StringBuf::Clear.
StringBuf_Clear(w, p) ==
  [HeapDelete(w, w.blk[p].buf) EXCEPT !.blk[p].buf = Null, !.blk[p].len = 0,
                                     !.blk[p].used = 0]

\* delete p: ~StringBuf releases buf, operator delete gives the block back.
StringBuf_delete(w, p) ==
  IF p \notin DOMAIN w.blk THEN [w EXCEPT !.ub = TRUE]
  ELSE [FastArena_Deallocate(HeapDelete(w, w.blk[p].buf), p) EXCEPT !.blk = Without(@, p)]

\* data_ = <the StringBuf just created>, unless creating it threw.
Adopt(w, s) == IF w.failed THEN w ELSE [w EXCEPT !.data_[s] = w.ret]

\* A constructor has finished, unless it threw: the String exists.
Born(w, s) == IF w.failed THEN w ELSE [w EXCEPT !.live = @ \cup {s}]

\* The end of a String's lifetime, after its destructor's body.
Gone(w, s) == [w EXCEPT !.data_[s] = Null, !.live = @ \ {s}]

\* ++nCopies at the end of a copy constructor that did not throw.
Counted(w) == IF w.failed THEN w ELSE [w EXCEPT !.nCopies = @ + 1]

\* String::String() : data_(new StringBuf), the same in the four namespaces.
String_ctor(w, s) == Born(Adopt(StringBuf_new(w), s), s)

\* ------------------------------------------------------------- COW_Unsafe
\* Fault: the destructor releases only at refs == 0.
COW_Unsafe_dtor_zero(w, s) ==
  LET p == w.data_[s]
      Test(w1) == IF w1.blk[p].refs = 0 THEN StringBuf_delete(w1, p) ELSE w1
  IN  Gone(Test([w EXCEPT !.blk[p].refs = @ - 1]), s)

\* if( --data_->refs < 1 ) delete data_;
COW_Unsafe_dtor(w, s) ==
  LET p == w.data_[s]
      Test(w1) == IF w1.blk[p].refs < 1 THEN StringBuf_delete(w1, p) ELSE w1
  IN  Gone(Test([w EXCEPT !.blk[p].refs = @ - 1]), s)

COW_Unsafe_copy(w, s, other) ==
  LET o == w.data_[other] IN
  Born(Counted(IF w.blk[o].refs > 0
               THEN [w EXCEPT !.data_[s] = o, !.blk[o].refs = @ + 1]
               ELSE Adopt(StringBuf_copy(w, o, 0), s)), s)

COW_Unsafe_Clear(w, s) ==
  LET p == w.data_[s] IN
  IF w.blk[p].refs > 1
  THEN Adopt(StringBuf_new([w EXCEPT !.blk[p].refs = @ - 1]), s)
  ELSE [StringBuf_Clear(w, p) EXCEPT !.blk[p].refs = 1]

\* Fault: EnsureUnique without the test for a shared buffer.
COW_Unsafe_EnsureUnique_inplace(w, s, n) ==
  [StringBuf_Reserve(w, w.data_[s], n) EXCEPT !.blk[w.data_[s]].refs = 1]

COW_Unsafe_EnsureUnique(w, s, n) ==
  LET p == w.data_[s]
      Own(w1) == IF w1.failed THEN w1
                 ELSE [w1 EXCEPT !.blk[p].refs = @ - 1, !.data_[s] = w1.ret]
  IN  IF w.blk[p].refs > 1
      THEN Own(StringBuf_copy(w, p, n))
      ELSE [StringBuf_Reserve(w, p, n) EXCEPT !.blk[p].refs = 1]

\* ---------------------------------------------------------- COW_AtomicInt
COW_AtomicInt_dtor(w, s) ==
  LET p == w.data_[s]
      Test(w1) == IF w1.blk[p].refs < 1 THEN StringBuf_delete(w1, p) ELSE w1
  IN  Gone(Test([w EXCEPT !.blk[p].refs = IntAtomicDecrement(@)]), s)

COW_AtomicInt_copy(w, s, other) ==
  LET o == w.data_[other] IN
  Born(Counted(IF IntAtomicCompare(w.blk[o].refs, 0) > 0
               THEN [w EXCEPT !.data_[s] = o, !.blk[o].refs = IntAtomicIncrement(@)]
               ELSE Adopt(StringBuf_copy(w, o, 0), s)), s)

COW_AtomicInt_Clear(w, s) ==
  LET p == w.data_[s]
      Test(w1) ==
        IF w1.blk[p].refs < 1
        THEN [StringBuf_Clear(w1, p) EXCEPT !.blk[p].refs = 1]
        ELSE Adopt(StringBuf_new(w1), s)
  IN  Test([w EXCEPT !.blk[p].refs = IntAtomicDecrement(@)])

\* Fault: an exclusive buffer keeps its mark.
COW_AtomicInt_EnsureUnique_keeps(w, s, n) ==
  LET p == w.data_[s]
      Test(w2, newdata) ==
        IF w2.blk[p].refs < 1
        THEN [StringBuf_delete(w2, newdata) EXCEPT !.blk[p].refs = 1]
        ELSE [w2 EXCEPT !.data_[s] = newdata]
      Own(w1) ==
        IF w1.failed THEN w1
        ELSE Test([w1 EXCEPT !.blk[p].refs = IntAtomicDecrement(@)], w1.ret)
  IN  IF IntAtomicCompare(w.blk[p].refs, 1) > 0
      THEN Own(StringBuf_copy(w, p, n))
      ELSE StringBuf_Reserve(w, p, n)

COW_AtomicInt_EnsureUnique(w, s, n) ==
  LET p == w.data_[s]
      Test(w2, newdata) ==
        IF w2.blk[p].refs < 1
        THEN [StringBuf_delete(w2, newdata) EXCEPT !.blk[p].refs = 1]
        ELSE [w2 EXCEPT !.data_[s] = newdata]
      Own(w1) ==
        IF w1.failed THEN w1
        ELSE Test([w1 EXCEPT !.blk[p].refs = IntAtomicDecrement(@)], w1.ret)
  IN  IF IntAtomicCompare(w.blk[p].refs, 1) > 0
      THEN Own(StringBuf_copy(w, p, n))
      ELSE [StringBuf_Reserve(w, p, n) EXCEPT !.blk[p].refs = 1]

\* ------------------------------------------------------------ COW_CritSec
COW_CritSec_dtor(w, s) ==
  LET p == w.data_[s]
      Test(w1) ==
        IF w1.blk[p].refs < 1
        THEN StringBuf_delete(Lock_Unlock(w1, p, TRUE), p)
        ELSE Lock_Unlock(w1, p, TRUE)
  IN  Gone(Test([Lock_ctor(w, p) EXCEPT !.blk[p].refs = @ - 1]), s)

COW_CritSec_copy(w, s, other) ==
  LET o == w.data_[other]
      Locked(w1) ==
        IF w1.blk[o].refs > 0
        THEN Lock_Unlock([w1 EXCEPT !.data_[s] = o, !.blk[o].refs = @ + 1], o, TRUE)
        ELSE Adopt(StringBuf_copy(Lock_Unlock(w1, o, TRUE), o, 0), s)
  IN  Born(Counted(Locked(Lock_ctor(w, o))), s)

\* Fault: Clear truncates in place whoever else holds the buffer.
COW_CritSec_Clear_inplace(w, s) ==
  [StringBuf_Clear(Lock_Unlock(Lock_ctor(w, w.data_[s]), w.data_[s], TRUE), w.data_[s])
     EXCEPT !.blk[w.data_[s]].refs = 1]

COW_CritSec_Clear(w, s) ==
  LET p == w.data_[s]
      Locked(w1) ==
        IF w1.blk[p].refs > 1
        THEN Adopt(StringBuf_new(Lock_Unlock([w1 EXCEPT !.blk[p].refs = @ - 1], p, TRUE)), s)
        ELSE [StringBuf_Clear(Lock_Unlock(w1, p, TRUE), p) EXCEPT !.blk[p].refs = 1]
  IN  Locked(Lock_ctor(w, p))

\* new StringBuf( *data_, n ) runs with the lock held; if it throws, ~Lock
\* unlocks.
COW_CritSec_EnsureUnique(w, s, n) ==
  LET p == w.data_[s]
      Own(w2) ==
        IF w2.failed THEN Lock_Unlock(w2, p, TRUE)
        ELSE [Lock_Unlock([w2 EXCEPT !.blk[p].refs = @ - 1], p, TRUE)
                EXCEPT !.data_[s] = w2.ret]
      Locked(w1) ==
        IF w1.blk[p].refs > 1
        THEN Own(StringBuf_copy(w1, p, n))
        ELSE [StringBuf_Reserve(Lock_Unlock(w1, p, TRUE), p, n) EXCEPT !.blk[p].refs = 1]
  IN  Locked(Lock_ctor(w, p))

\* -------------------------------------------------------------- COW_Mutex
COW_Mutex_dtor(w, s) ==
  LET p == w.data_[s]
      Test(w1) ==
        IF w1.blk[p].refs < 1
        THEN StringBuf_delete(Lock_Unlock(w1, p, TRUE), p)
        ELSE Lock_Unlock(w1, p, TRUE)
  IN  Gone(Test([Lock_ctor(w, p) EXCEPT !.blk[p].refs = @ - 1]), s)

COW_Mutex_copy(w, s, other) ==
  LET o == w.data_[other]
      Locked(w1) ==
        IF w1.blk[o].refs > 0
        THEN Lock_Unlock([w1 EXCEPT !.data_[s] = o, !.blk[o].refs = @ + 1], o, TRUE)
        ELSE Adopt(StringBuf_copy(Lock_Unlock(w1, o, TRUE), o, 0), s)
  IN  Born(Counted(Locked(Lock_ctor(w, o))), s)

COW_Mutex_Clear(w, s) ==
  LET p == w.data_[s]
      Locked(w1) ==
        IF w1.blk[p].refs > 1
        THEN Adopt(StringBuf_new(Lock_Unlock([w1 EXCEPT !.blk[p].refs = @ - 1], p, TRUE)), s)
        ELSE [StringBuf_Clear(Lock_Unlock(w1, p, TRUE), p) EXCEPT !.blk[p].refs = 1]
  IN  Locked(Lock_ctor(w, p))

COW_Mutex_EnsureUnique(w, s, n) ==
  LET p == w.data_[s]
      Own(w2) ==
        IF w2.failed THEN Lock_Unlock(w2, p, TRUE)
        ELSE [Lock_Unlock([w2 EXCEPT !.blk[p].refs = @ - 1], p, TRUE)
                EXCEPT !.data_[s] = w2.ret]
      Locked(w1) ==
        IF w1.blk[p].refs > 1
        THEN Own(StringBuf_copy(w1, p, n))
        ELSE [StringBuf_Reserve(Lock_Unlock(w1, p, TRUE), p, n) EXCEPT !.blk[p].refs = 1]
  IN  Locked(Lock_ctor(w, p))

\* ------------------------------------- String of common-test.h, continued
\* EnsureUnique of the namespace that includes common-test.h.
EnsureUnique(w, s, n) ==
  CASE variant = "COW_Unsafe" -> COW_Unsafe_EnsureUnique(w, s, n)
    [] variant = "COW_AtomicInt" -> COW_AtomicInt_EnsureUnique(w, s, n)
    [] variant = "COW_CritSec" -> COW_CritSec_EnsureUnique(w, s, n)
    [] variant = "COW_Mutex" -> COW_Mutex_EnsureUnique(w, s, n)

\* Fault: the character is stored and used is left as it was.
String_put_nocount(w, s, c) ==
  IF w.failed THEN w
  ELSE [w EXCEPT !.heap[w.blk[w.data_[s]].buf][w.blk[w.data_[s]].used + 1] = c]

\* data_->buf[data_->used++] = c
String_put(w, s, c) ==
  IF w.failed THEN w
  ELSE [w EXCEPT !.heap[w.blk[w.data_[s]].buf][w.blk[w.data_[s]].used + 1] = c,
                 !.blk[w.data_[s]].used = @ + 1]

\* String::Append.
String_Append(w, s, c) ==
  String_put(EnsureUnique(w, s, w.blk[w.data_[s]].used + 1), s, c)

\* String::Length.
String_Length(w, s) == w.blk[w.data_[s]].used

\* Fault: operator[] leaves the buffer shareable.
String_mark_skip(w, s) == w

\* data_->refs = -1
String_mark(w, s) == IF w.failed THEN w ELSE [w EXCEPT !.blk[w.data_[s]].refs = 0 - 1]

\* String::EnsureUnshareable.
String_EnsureUnshareable(w, s, n) == String_mark(EnsureUnique(w, s, n), s)

\* String::operator[] up to its return: the state it leaves.
String_index(w, s, n) == String_EnsureUnshareable(w, s, w.blk[w.data_[s]].len)

\* --------------------------------------------------------- COW_AtomicInt2
\* The glommed buffer: the StringBuf header and the characters in one
\* allocation of the general heap; BUF is the character region.
Glommed(len, used, refs, chars) ==
  [len |-> len, used |-> used, refs |-> refs, BUF |-> chars]

\* data_( new char[ sizeof(StringBuf) ] ), ++nAllocs, LEN = 0, USED = 0, REFS = 1.
COW_AtomicInt2_ctor(w, s) ==
  Born(Adopt(HeapNew([w EXCEPT !.nAllocs = @ + 1], Glommed(0, 0, 1, NewChars(0))), s), s)

\* delete[] of a glommed buffer.
COW_AtomicInt2_delete(w, p) == HeapDelete(w, p)

COW_AtomicInt2_dtor(w, s) ==
  LET p == w.data_[s]
      Test(w1) == IF w1.heap[p].refs < 1 THEN COW_AtomicInt2_delete(w1, p) ELSE w1
  IN  Gone(Test([w EXCEPT !.heap[p].refs = IntAtomicDecrement(@)]), s)

\* String::Clone: memcpy copies the header and USED(data) characters, then
\* LEN and REFS of the new buffer are set.
COW_AtomicInt2_Clone(w, data, n) ==
  LET old == w.heap[data]
      newlen == RoundUp4(Needed(old.len, n))
  IN  HeapNew([w EXCEPT !.nAllocs = @ + 1],
              Glommed(newlen, old.used, 1, Memcpy(NewChars(newlen), old.BUF, old.used)))

\* Fault: the copy constructor always clones.
COW_AtomicInt2_copy_deep(w, s, other) ==
  Born(Counted(Adopt(COW_AtomicInt2_Clone(w, w.data_[other], 0), s)), s)

COW_AtomicInt2_copy(w, s, other) ==
  LET o == w.data_[other] IN
  Born(Counted(IF IntAtomicCompare(w.heap[o].refs, 0) > 0
               THEN [w EXCEPT !.data_[s] = o, !.heap[o].refs = IntAtomicIncrement(@)]
               ELSE Adopt(COW_AtomicInt2_Clone(w, o, 0), s)), s)

\* Fault: Swap exchanges nothing.
COW_AtomicInt2_Swap_none(w, s, other) == w

COW_AtomicInt2_Swap(w, s, other) ==
  [w EXCEPT !.data_[s] = w.data_[other], !.data_[other] = w.data_[s]]

\* String::Clear: String tmp; Swap( tmp ); then tmp is destroyed.
COW_AtomicInt2_Clear(w, s) ==
  COW_AtomicInt2_dtor(COW_AtomicInt2_Swap(COW_AtomicInt2_ctor(w, Tmp), s, Tmp), Tmp)

COW_AtomicInt2_Reserve(w, s, n) ==
  LET p == w.data_[s] IN
  IF w.heap[p].len < n
  THEN Adopt(COW_AtomicInt2_delete(COW_AtomicInt2_Clone(w, p, n), p), s)
  ELSE w

COW_AtomicInt2_EnsureUnique(w, s, n) ==
  LET p == w.data_[s]
      Test(w2, newdata) ==
        IF w2.heap[p].refs < 1
        THEN [COW_AtomicInt2_delete(w2, newdata) EXCEPT !.heap[p].refs = 1]
        ELSE [w2 EXCEPT !.data_[s] = newdata]
      Own(w1) == Test([w1 EXCEPT !.heap[p].refs = IntAtomicDecrement(@)], w1.ret)
      Shareable(w1) == [w1 EXCEPT !.heap[w1.data_[s]].refs = 1]
  IN  IF IntAtomicCompare(w.heap[p].refs, 1) > 0
      THEN Own(COW_AtomicInt2_Clone(w, p, n))
      ELSE Shareable(COW_AtomicInt2_Reserve(w, s, n))

\* REFS(data_) = -1
COW_AtomicInt2_mark(w, s) == [w EXCEPT !.heap[w.data_[s]].refs = 0 - 1]

COW_AtomicInt2_EnsureUnshareable(w, s, n) ==
  COW_AtomicInt2_mark(COW_AtomicInt2_EnsureUnique(w, s, n), s)

\* Fault: the character is stored, USED is not incremented.
COW_AtomicInt2_put_noinc(w, s, c) ==
  [w EXCEPT !.heap[w.data_[s]].BUF[w.heap[w.data_[s]].used + 1] = c]

\* BUF(data_)[USED(data_)++] = c
COW_AtomicInt2_put(w, s, c) ==
  [w EXCEPT !.heap[w.data_[s]].BUF[w.heap[w.data_[s]].used + 1] = c,
            !.heap[w.data_[s]].used = @ + 1]

COW_AtomicInt2_Append(w, s, c) ==
  COW_AtomicInt2_put(COW_AtomicInt2_EnsureUnique(w, s, w.heap[w.data_[s]].used + 1), s, c)

COW_AtomicInt2_Length(w, s) == w.heap[w.data_[s]].used

\* String::operator[] up to its return: the state it leaves.
COW_AtomicInt2_index(w, s, n) ==
  COW_AtomicInt2_EnsureUnshareable(w, s, w.heap[w.data_[s]].len)

\* ------------------------------------------------------------------ Plain
\* buf_(0), len_(0), used_(0)
Plain_fields(w, s, buf, len, used) ==
  [w EXCEPT !.buf_[s] = buf, !.len_[s] = len, !.used_[s] = used]

Plain_ctor(w, s) == Born(Plain_fields(w, s, Null, 0, 0), s)

Plain_dtor(w, s) ==
  [Plain_fields(HeapDelete(w, w.buf_[s]), s, Null, 0, 0) EXCEPT !.live = @ \ {s}]

\* buf_(new char[other.len_]), len_(other.len_), used_(other.used_), then
\* memcpy( buf_, other.buf_, used_ ), ++nCopies, ++nAllocs.
Plain_copy(w, s, other) ==
  LET Body(w1) ==
        [HeapMemcpy(Plain_fields(w1, s, w1.ret, w.len_[other], w.used_[other]),
                    w1.ret, w.buf_[other], w.used_[other])
           EXCEPT !.nCopies = @ + 1, !.nAllocs = @ + 1]
  IN  Born(Body(HeapNew(w, NewChars(w.len_[other]))), s)

Plain_Clear(w, s) == Plain_fields(HeapDelete(w, w.buf_[s]), s, Null, 0, 0)

\* newlen ? (++nAllocs, new char[ newlen ]) : 0
Plain_newbuf(w, newlen) ==
  IF newlen # 0 THEN HeapNew([w EXCEPT !.nAllocs = @ + 1], NewChars(newlen))
  ELSE [w EXCEPT !.ret = Null]

Plain_Reserve(w, s, n) ==
  IF w.len_[s] < n
  THEN LET newlen == RoundUp4(Needed(w.len_[s], n))
           buf == w.buf_[s]
           Take(w1) ==
             [HeapDelete(IF buf # Null
                         THEN HeapMemcpy(w1, w1.ret, buf, w.used_[s])
                         ELSE w1, buf)
                EXCEPT !.buf_[s] = w1.ret, !.len_[s] = newlen]
       IN  Take(Plain_newbuf(w, newlen))
  ELSE w

\* buf_[used_++] = c
Plain_put(w, s, c) ==
  [w EXCEPT !.heap[w.buf_[s]][w.used_[s] + 1] = c, !.used_[s] = @ + 1]

Plain_Append(w, s, c) == Plain_put(Plain_Reserve(w, s, w.used_[s] + 1), s, c)

Plain_Length(w, s) == w.used_[s]

\* String::operator[] changes nothing.
Plain_index(w, s, n) == w

\* -------------------------------------------------------- Plain_FastAlloc
\* The char arrays live in the blocks of Plain_FastAlloc::String::fa.
Plain_FastAlloc_ctor(w, s) == Born(Plain_fields(w, s, Null, 0, 0), s)

\* fa.Deallocate(p), and the end of the array that lived in the block.
Plain_FastAlloc_free(w, p) ==
  LET Freed(w1) ==
        IF p = Null \/ w1.failed \/ w1.ub THEN w1
        ELSE IF p \notin DOMAIN w1.blk THEN [w1 EXCEPT !.ub = TRUE]
        ELSE [w1 EXCEPT !.blk = Without(@, p)]
  IN  Freed(FastArena_Deallocate(w, p))

\* (char*)fa.Allocate(n): a block holding an array of n cells.
Plain_FastAlloc_alloc(w, n) ==
  LET Made(w1) ==
        IF w1.failed THEN w1 ELSE [w1 EXCEPT !.blk = (w1.ret :> NewChars(n)) @@ @]
  IN  Made(FastArena_Allocate(w, n))

\* memcpy( dst, src, k ) between two char arrays in arena blocks.
Plain_FastAlloc_memcpy(w, dst, src, k) ==
  IF k = 0 THEN w
  ELSE IF dst \notin DOMAIN w.blk \/ src \notin DOMAIN w.blk THEN [w EXCEPT !.ub = TRUE]
  ELSE [w EXCEPT !.blk[dst] = Memcpy(@, w.blk[src], k)]

Plain_FastAlloc_dtor(w, s) ==
  [Plain_fields(Plain_FastAlloc_free(w, w.buf_[s]), s, Null, 0, 0)
     EXCEPT !.live = @ \ {s}]

Plain_FastAlloc_copy(w, s, other) ==
  LET Body(w1) ==
        IF w1.failed THEN w1
        ELSE [Plain_FastAlloc_memcpy(
                Plain_fields(w1, s, w1.ret, w.len_[other], w.used_[other]),
                w1.ret, w.buf_[other], w.used_[other])
                EXCEPT !.nCopies = @ + 1, !.nAllocs = @ + 1]
  IN  Born(Body(Plain_FastAlloc_alloc(w, w.len_[other])), s)

Plain_FastAlloc_Clear(w, s) ==
  Plain_fields(Plain_FastAlloc_free(w, w.buf_[s]), s, Null, 0, 0)

\* newlen ? (++nAllocs, (char*)fa.Allocate(newlen)) : 0; ++nAllocs comes
\* before fa.Allocate, which may throw.
Plain_FastAlloc_newbuf(w, newlen) ==
  IF newlen # 0 THEN Plain_FastAlloc_alloc([w EXCEPT !.nAllocs = @ + 1], newlen)
  ELSE [w EXCEPT !.ret = Null]

Plain_FastAlloc_Reserve(w, s, n) ==
  IF w.len_[s] < n
  THEN LET newlen == RoundUp4(Needed(w.len_[s], n))
           buf == w.buf_[s]
           Take(w1) ==
             IF w1.failed THEN w1
             ELSE [Plain_FastAlloc_free(
                     IF buf # Null
                     THEN Plain_FastAlloc_memcpy(w1, w1.ret, buf, w.used_[s])
                     ELSE w1, buf)
                     EXCEPT !.buf_[s] = w1.ret, !.len_[s] = newlen]
       IN  Take(Plain_FastAlloc_newbuf(w, newlen))
  ELSE w

\* buf_[used_++] = c
Plain_FastAlloc_put(w, s, c) ==
  IF w.failed THEN w
  ELSE [w EXCEPT !.blk[w.buf_[s]][w.used_[s] + 1] = c, !.used_[s] = @ + 1]

Plain_FastAlloc_Append(w, s, c) ==
  Plain_FastAlloc_put(Plain_FastAlloc_Reserve(w, s, w.used_[s] + 1), s, c)

Plain_FastAlloc_Length(w, s) == w.used_[s]

Plain_FastAlloc_index(w, s, n) == w

\* ------------------------------------------------ the harness's template S
\* Test<S> and RUN_TEST name the String of one namespace; these select it.
S_ctor(w, s) ==
  CASE variant = "Plain" -> Plain_ctor(w, s)
    [] variant = "Plain_FastAlloc" -> Plain_FastAlloc_ctor(w, s)
    [] variant = "COW_AtomicInt2" -> COW_AtomicInt2_ctor(w, s)
    [] OTHER -> String_ctor(w, s)

S_dtor(w, s) ==
  CASE variant = "Plain" -> Plain_dtor(w, s)
    [] variant = "Plain_FastAlloc" -> Plain_FastAlloc_dtor(w, s)
    [] variant = "COW_Unsafe" -> COW_Unsafe_dtor(w, s)
    [] variant = "COW_AtomicInt" -> COW_AtomicInt_dtor(w, s)
    [] variant = "COW_AtomicInt2" -> COW_AtomicInt2_dtor(w, s)
    [] variant = "COW_CritSec" -> COW_CritSec_dtor(w, s)
    [] variant = "COW_Mutex" -> COW_Mutex_dtor(w, s)

S_copy(w, s, other) ==
  CASE variant = "Plain" -> Plain_copy(w, s, other)
    [] variant = "Plain_FastAlloc" -> Plain_FastAlloc_copy(w, s, other)
    [] variant = "COW_Unsafe" -> COW_Unsafe_copy(w, s, other)
    [] variant = "COW_AtomicInt" -> COW_AtomicInt_copy(w, s, other)
    [] variant = "COW_AtomicInt2" -> COW_AtomicInt2_copy(w, s, other)
    [] variant = "COW_CritSec" -> COW_CritSec_copy(w, s, other)
    [] variant = "COW_Mutex" -> COW_Mutex_copy(w, s, other)

S_Clear(w, s) ==
  CASE variant = "Plain" -> Plain_Clear(w, s)
    [] variant = "Plain_FastAlloc" -> Plain_FastAlloc_Clear(w, s)
    [] variant = "COW_Unsafe" -> COW_Unsafe_Clear(w, s)
    [] variant = "COW_AtomicInt" -> COW_AtomicInt_Clear(w, s)
    [] variant = "COW_AtomicInt2" -> COW_AtomicInt2_Clear(w, s)
    [] variant = "COW_CritSec" -> COW_CritSec_Clear(w, s)
    [] variant = "COW_Mutex" -> COW_Mutex_Clear(w, s)

S_Append(w, s, c) ==
  CASE variant = "Plain" -> Plain_Append(w, s, c)
    [] variant = "Plain_FastAlloc" -> Plain_FastAlloc_Append(w, s, c)
    [] variant = "COW_AtomicInt2" -> COW_AtomicInt2_Append(w, s, c)
    [] OTHER -> String_Append(w, s, c)

S_index(w, s, n) ==
  CASE variant = "Plain" -> Plain_index(w, s, n)
    [] variant = "Plain_FastAlloc" -> Plain_FastAlloc_index(w, s, n)
    [] variant = "COW_AtomicInt2" -> COW_AtomicInt2_index(w, s, n)
    [] OTHER -> String_index(w, s, n)

S_Length(w, s) ==
  CASE variant = "Plain" -> Plain_Length(w, s)
    [] variant = "Plain_FastAlloc" -> Plain_FastAlloc_Length(w, s)
    [] variant = "COW_AtomicInt2" -> COW_AtomicInt2_Length(w, s)
    [] OTHER -> String_Length(w, s)

\* ------------------------------------------------------------ observation
\* The buffer a String holds: data_, or buf_ in the Plain variants.
BufOf(w, s) == IF variant \in CowVariants THEN w.data_[s] ELSE w.buf_[s]

\* The StringBufs that have not been released (COW variants).
Buffers(w) == IF variant = "COW_AtomicInt2" THEN DOMAIN w.heap ELSE DOMAIN w.blk

\* The StringBuf header at p (COW variants).
Hdr(w, p) == IF variant = "COW_AtomicInt2" THEN w.heap[p] ELSE w.blk[p]

\* The cells of the StringBuf at p: data_->buf, BUF(data_).
CellsAt(w, p) ==
  IF variant = "COW_AtomicInt2" THEN w.heap[p].BUF
  ELSE IF w.blk[p].buf = Null THEN <<>>
  ELSE w.heap[w.blk[p].buf]

\* The cells operator[] indexes: *(data_->buf + n), BUF(data_)[n], *(buf_ + n).
Cells(w, s) ==
  CASE variant = "Plain" ->
         IF w.buf_[s] = Null THEN <<>> ELSE w.heap[w.buf_[s]]
    [] variant = "Plain_FastAlloc" ->
         IF w.buf_[s] = Null THEN <<>> ELSE w.blk[w.buf_[s]]
    [] OTHER -> CellsAt(w, w.data_[s])

\* Capacity: len of the StringBuf, or len_.
Capacity(w, s) ==
  IF variant \in CowVariants THEN Hdr(w, w.data_[s]).len ELSE w.len_[s]

\* A store through the reference operator[] returned.
Store(w, s, n, c) ==
  CASE w.failed -> w
    [] variant = "Plain" -> [w EXCEPT !.heap[w.buf_[s]][n + 1] = c]
    [] variant = "Plain_FastAlloc" -> [w EXCEPT !.blk[w.buf_[s]][n + 1] = c]
    [] variant = "COW_AtomicInt2" -> [w EXCEPT !.heap[w.data_[s]].BUF[n + 1] = c]
    [] OTHER -> [w EXCEPT !.heap[w.blk[w.data_[s]].buf][n + 1] = c]

\* What a read of a cell can yield.
Reads(cell) == IF cell = Uninit THEN Chars ELSE {cell}

\* What a read through the reference operator[] returned can yield.
ReadAt(w, s, n) == IF w.failed THEN {""} ELSE Reads(Cells(w, s)[n + 1])

\* The characters of s, index 0 first: the first Length() cells.
Text(w, s) == [i \in 1..S_Length(w, s) |-> Cells(w, s)[i]]

\* The first used cells of the StringBuf at p.
TextAt(w, p) == [i \in 1..Hdr(w, p).used |-> CellsAt(w, p)[i]]

\* refs of the buffer of s, 0 in the Plain variants (which have none).
RefsOf(w, s) == IF variant \in CowVariants THEN Hdr(w, w.data_[s]).refs ELSE 0

\* The live Strings holding buffer p.
Holders(w, p) == {s \in w.live : BufOf(w, s) = p}

\* ------------------------------------------------------------------ driver
\* The two Strings of the harness: 1 is s (RUN_TEST's S s, Test's parameter),
\* 2 is s2 (Test's local copy of s).
StrIds == {1, 2}

\* The driver's log of its last call: the member function, the String, the
\* index passed to operator[] (under SpecLong: the number of Append calls made
\* so far), the character a read through operator[] gave, the String a copy
\* was constructed from, and refs of the String's buffer (of the source's,
\* for a copy) before the call.
NoOp == [op |-> "none", s |-> 0, n |-> 0, val |-> "", from |-> 0, pre |-> 0]

Running == ~failed /\ ~ub
\* Under Spec the driver makes no call that takes a counter past its cap.
Within(w) == w.nCopies <= MaxCopies /\ w.nAllocs <= MaxAllocs

Init ==
  /\ variant \in Variants
  /\ live = {}
  /\ data_ = [h \in StrIds \cup {Tmp} |-> Null]
  /\ buf_ = [h \in StrIds |-> Null]
  /\ len_ = [h \in StrIds |-> 0]
  /\ used_ = [h \in StrIds |-> 0]
  /\ heap = <<>>
  /\ fa = FastArena_Init
  /\ blk = <<>>
  /\ nCopies = 0
  /\ nAllocs = 0
  /\ failed = FALSE
  /\ ub = FALSE
  /\ built = <<>>
  /\ indexed = {}
  /\ last = NoOp
  /\ thr = <<>>

\* One operation of the driver: the state it leaves and what it was.
Do(w, l) == Commit(w) /\ last' = l /\ UNCHANGED <<variant, thr>>

\* One operation of the driver under Spec.
Capped(w, l) == Within(w) /\ Do(w, l)

\* S s;
OpConstruct(s) ==
  /\ Running
  /\ s \notin live
  /\ Capped(S_ctor(W, s), [NoOp EXCEPT !.op = "Construct", !.s = s])
  /\ UNCHANGED <<built, indexed>>

\* S s( other );
OpCopy(s, other) ==
  /\ Running
  /\ s \notin live /\ other \in live
  /\ Capped(S_copy(W, s, other),
        [NoOp EXCEPT !.op = "Copy", !.s = s, !.from = other, !.pre = RefsOf(W, other)])
  /\ UNCHANGED <<built, indexed>>

\* s leaves its scope.
OpDestroy(s) ==
  /\ Running
  /\ s \in live
  /\ Capped(S_dtor(W, s), [NoOp EXCEPT !.op = "Destroy", !.s = s, !.pre = RefsOf(W, s)])
  /\ indexed' = indexed \ {s}
  /\ UNCHANGED built

\* s.Clear();
OpClear(s) ==
  /\ Running
  /\ s \in live
  /\ Capped(S_Clear(W, s), [NoOp EXCEPT !.op = "Clear", !.s = s, !.pre = RefsOf(W, s)])
  /\ indexed' = indexed \ {s}
  /\ UNCHANGED built

\* s.Append( c );
OpAppend(s, c) ==
  /\ Running
  /\ s \in live
  /\ S_Length(W, s) < MaxLen
  /\ Capped(S_Append(W, s, c), [NoOp EXCEPT !.op = "Append", !.s = s, !.pre = RefsOf(W, s)])
  /\ UNCHANGED <<built, indexed>>

\* counter += s[n];
OpIndexRead(s, n) ==
  /\ Running
  /\ s \in live
  /\ n < S_Length(W, s)
  /\ LET Returned(w) ==
           \E v \in ReadAt(w, s, n) :
             Capped(w, [NoOp EXCEPT !.op = "IndexRead", !.s = s, !.n = n, !.val = v,
                                !.pre = RefsOf(W, s)])
     IN  Returned(S_index(W, s, n))
  /\ indexed' = indexed \cup {s}
  /\ UNCHANGED built

\* s[n] = c;
OpIndexWrite(s, n, c) ==
  /\ Running
  /\ s \in live
  /\ n < S_Length(W, s)
  /\ Capped(Store(S_index(W, s, n), s, n, c),
        [NoOp EXCEPT !.op = "IndexWrite", !.s = s, !.n = n, !.pre = RefsOf(W, s)])
  /\ indexed' = indexed \cup {s}
  /\ UNCHANGED built

\* RUN_TEST default-constructs s; Test copy-constructs s2 from it.
Next ==
  \/ OpConstruct(1)
  \/ OpCopy(2, 1)
  \/ \E s \in StrIds : OpDestroy(s)
  \/ \E s \in StrIds : OpClear(s)
  \/ \E s \in StrIds, c \in Chars : OpAppend(s, c)
  \/ \E s \in StrIds, n \in 0..(MaxLen - 1) : OpIndexRead(s, n)
  \/ \E s \in StrIds, n \in 0..(MaxLen - 1), c \in Chars : OpIndexWrite(s, n, c)

Spec == Init /\ [][Next]_vars

\* ------------------------------------- marking one String unshareable
\* s is built, indexed, appended to and cleared; s2 is only ever a copy of
\* s that nobody touches (TEST_CONST_COPY).
MarkAppend(c) ==
  /\ Running
  /\ 1 \in live
  /\ S_Length(W, 1) < MarkLen
  /\ Capped(S_Append(W, 1, c), [NoOp EXCEPT !.op = "Append", !.s = 1, !.pre = RefsOf(W, 1)])
  /\ UNCHANGED <<built, indexed>>

InitMark == Init /\ variant \in CowVariants

NextMark ==
  \/ OpConstruct(1)
  \/ OpCopy(2, 1)
  \/ \E s \in StrIds : OpDestroy(s)
  \/ OpClear(1)
  \/ \E c \in Chars : MarkAppend(c)
  \/ \E n \in 0..(MarkLen - 1) : OpIndexRead(1, n)

SpecMark == InitMark /\ [][NextMark]_vars

\* --------------------------------------------- building one String (Test)
\* Test's first loop appends to s alone; here the driver also reads back.
BuildConstruct ==
  /\ Running
  /\ 1 \notin live
  /\ last.op = "none"
  /\ Do(S_ctor(W, 1), [NoOp EXCEPT !.op = "Construct", !.s = 1])
  /\ UNCHANGED <<built, indexed>>

BuildAppend(c) ==
  /\ Running
  /\ 1 \in live
  /\ Len(built) < BuildLen
  /\ Do(S_Append(W, 1, c), [NoOp EXCEPT !.op = "Append", !.s = 1, !.pre = RefsOf(W, 1)])
  /\ built' = Append(built, c)
  /\ UNCHANGED indexed

BuildRead(n) ==
  /\ Running
  /\ 1 \in live
  /\ n < S_Length(W, 1)
  /\ LET Returned(w) ==
           \E v \in ReadAt(w, 1, n) :
             Do(w, [NoOp EXCEPT !.op = "IndexRead", !.s = 1, !.n = n, !.val = v,
                                !.pre = RefsOf(W, 1)])
     IN  Returned(S_index(W, 1, n))
  /\ indexed' = indexed \cup {1}
  /\ UNCHANGED built

NextBuild ==
  \/ BuildConstruct
  \/ \E c \in Chars : BuildAppend(c)
  \/ \E n \in 0..(BuildLen - 1) : BuildRead(n)

SpecBuild == Init /\ [][NextBuild]_vars

\* ------------------------------------------------------ one long String
\* The character of the k-th Append (Test appends 'X', then 'a'..'y').
LongChar(k) == IF k % 2 = 0 THEN "a" ELSE "b"

LongConstruct ==
  /\ Running
  /\ 1 \notin live
  /\ last.op = "none"
  /\ Do(S_ctor(W, 1), [NoOp EXCEPT !.op = "Construct", !.s = 1])
  /\ UNCHANGED <<built, indexed>>

LongAppend ==
  /\ Running
  /\ 1 \in live
  /\ last.n < LongLen
  /\ Do(S_Append(W, 1, LongChar(last.n + 1)),
        [NoOp EXCEPT !.op = "Append", !.s = 1, !.n = last.n + 1, !.pre = RefsOf(W, 1)])
  /\ UNCHANGED <<built, indexed>>

NextLong == LongConstruct \/ LongAppend

SpecLong == Init /\ [][NextLong]_vars

\* ------------------------------------------------- threads on one buffer
\* The threads; thread t owns the Strings t (its copy of the String all
\* threads start from) and t + NThreads (the copy it makes of its own).
NThreads == 2
\* The member functions the threads call, all together.
MaxOps == 3
Threads == 1..NThreads
HandlesOf(t) == {t, t + NThreads}
Owner(h) == ((h - 1) % NThreads) + 1

\* The namespaces by the shape of their code: refs read and written with
\* plain statements (under a lock in COW_CritSec and COW_Mutex), or through
\* the IntAtomic functions.
LockedVariants == {"COW_CritSec", "COW_Mutex"}
AtomicVariants == {"COW_AtomicInt", "COW_AtomicInt2"}

\* The calls threads 1..k have made.
RECURSIVE CallsUpTo(_)
CallsUpTo(k) == IF k = 0 THEN 0 ELSE thr[k].ops + CallsUpTo(k - 1)

\* A thread between two calls.
Idle ==
  [pc |-> "idle", op |-> "none", s |-> 0, nd |-> Null, r |-> 0, n |-> 0,
   lk |-> FALSE, ops |-> 0, stale |-> FALSE]

\* The buffer the function thread t runs works on: other.data_ in the copy
\* constructor (the thread's first String), data_ elsewhere.
Src(t) == data_[IF thr[t].op = "Copy" THEN t ELSE thr[t].s]

\* A store to the reference count that never lands.
SetRefs_none(w, p, v) == w

\* x->refs = v, REFS(x) = v
SetRefs(w, p, v) ==
  IF variant = "COW_AtomicInt2" THEN [w EXCEPT !.heap[p].refs = v]
  ELSE [w EXCEPT !.blk[p].refs = v]

\* l.Unlock() of the function's Lock object, where it has one.
Unlocked(w, t) == IF thr[t].lk THEN Lock_Unlock(w, Src(t), TRUE) ELSE w

\* The String all threads share at the start: built and copied by one thread.
RECURSIVE SharedBy(_, _)
SharedBy(w, k) == IF k = 1 THEN w ELSE S_copy(SharedBy(w, k - 1), k, 1)

\* One step of thread t: the state it leaves, and the thread's own. The
\* statistics nCopies and nAllocs, which the harness reads on one thread,
\* are not followed while several threads run.
TStep(t, w, rec) ==
  /\ Commit([w EXCEPT !.nCopies = nCopies, !.nAllocs = nAllocs])
  /\ thr' = [thr EXCEPT ![t] = rec]
  /\ UNCHANGED <<variant, built, indexed, last>>

\* The function of thread t returns.
Return(t) ==
  [thr[t] EXCEPT !.pc = "idle", !.nd = Null, !.r = 0, !.n = 0, !.lk = FALSE]

\* Where Append and operator[] go on after EnsureUnique.
AfterUnique(t) ==
  [Return(t) EXCEPT !.pc = IF thr[t].op = "Append" THEN "put" ELSE "unshare"]

\* Clear has given up its reference and is creating the String's new
\* buffer: it does not look at the old one again.
LetGo(t) == thr[t].op = "Clear" /\ thr[t].pc \in {"scan", "mark"}

\* Thread t is at pc in a function, and the buffer it works on is there.
At(t, pc) == Running /\ thr[t].pc = pc /\ (LetGo(t) \/ Src(t) \in Buffers(W))

InitThreads ==
  /\ variant \in CowVariants
  /\ \E filled \in BOOLEAN :
       LET w0 == [live |-> {}, data_ |-> [h \in 0..(2 * NThreads) |-> Null],
                  buf_ |-> <<>>, len_ |-> <<>>, used_ |-> <<>>, heap |-> <<>>,
                  fa |-> FastArena_Init, blk |-> <<>>, nCopies |-> 0, nAllocs |-> 0,
                  failed |-> FALSE, ub |-> FALSE, ret |-> Null]
           w1 == IF filled THEN S_Append(S_ctor(w0, 1), 1, "a") ELSE S_ctor(w0, 1)
           w == SharedBy(w1, NThreads)
       IN  /\ live = w.live /\ data_ = w.data_ /\ heap = w.heap
           /\ fa = w.fa /\ blk = w.blk
  /\ buf_ = <<>> /\ len_ = <<>> /\ used_ = <<>>
  /\ nCopies = 0 /\ nAllocs = 0
  /\ failed = FALSE /\ ub = FALSE
  /\ built = <<>> /\ indexed = {} /\ last = NoOp
  /\ thr = [t \in Threads |-> Idle]

\* Thread t calls a member function of one of its Strings.
TBegin(t) ==
  /\ Running
  /\ thr[t].pc = "idle"
  /\ CallsUpTo(NThreads) < MaxOps
  /\ \E op \in {"Destroy", "Copy", "Clear", "Append", "Index"}, s \in HandlesOf(t) :
       /\ IF op = "Copy" THEN s = t + NThreads /\ s \notin live /\ t \in live
          ELSE s \in live
       /\ TStep(t, W, [thr[t] EXCEPT
                         !.pc = IF variant \in LockedVariants THEN "lock" ELSE "test",
                         !.op = op, !.s = s, !.ops = @ + 1])

\* Lock<T> l( data_->cs ): waits until the buffer's lock is free.
TLock(t) ==
  /\ At(t, "lock")
  /\ ~blk[Src(t)].cs
  /\ TStep(t, Lock_ctor(W, Src(t)), [thr[t] EXCEPT !.pc = "test", !.lk = TRUE])

\* The first look at refs. The plain code tests it, or reads it for the
\* destructor's decrement; the atomic code compares it, or decrements it at
\* once in the destructor and in COW_AtomicInt's Clear. COW_AtomicInt2's
\* Clear makes its local String and swaps.
TTest(t) ==
  /\ At(t, "test")
  /\ LET p == Src(t)
         op == thr[t].op
         refs == Hdr(W, p).refs
         n == IF op = "Append" THEN Hdr(W, p).used + 1
              ELSE IF op = "Index" THEN Hdr(W, p).len ELSE 0
         clone == IF variant = "COW_AtomicInt2" THEN "mark" ELSE "scan"
         dec == SetRefs(W, p, IntAtomicDecrement(refs))
     IN  IF variant \notin AtomicVariants
         THEN \/ /\ op = "Destroy"
                 /\ TStep(t, W, [thr[t] EXCEPT !.pc = "wr", !.r = refs])
              \/ /\ op = "Copy"
                 /\ IF refs > 0
                    THEN TStep(t, W, [thr[t] EXCEPT !.pc = "rd"])
                    ELSE TStep(t, Unlocked(W, t), [thr[t] EXCEPT !.pc = "scan", !.lk = FALSE])
              \/ /\ op = "Clear"
                 /\ IF refs > 1
                    THEN TStep(t, W, [thr[t] EXCEPT !.pc = "rd"])
                    ELSE TStep(t, Unlocked(W, t), [thr[t] EXCEPT !.pc = "inplace", !.lk = FALSE])
              \/ /\ op \in {"Append", "Index"}
                 /\ IF refs > 1
                    THEN TStep(t, W, [thr[t] EXCEPT !.pc = "scan", !.n = n])
                    ELSE TStep(t, Unlocked(W, t),
                               [thr[t] EXCEPT !.pc = "inplace", !.n = n, !.lk = FALSE])
         ELSE \/ /\ op = "Destroy"
                 /\ IF IntAtomicDecrement(refs) < 1
                    THEN TStep(t, dec, [thr[t] EXCEPT !.pc = "del"])
                    ELSE TStep(t, Gone(dec, thr[t].s), Return(t))
              \/ /\ op = "Copy"
                 /\ IF IntAtomicCompare(refs, 0) > 0
                    THEN TStep(t, W, [thr[t] EXCEPT !.pc = "wr"])
                    ELSE TStep(t, W, [thr[t] EXCEPT !.pc = clone])
              \/ /\ op = "Clear" /\ variant = "COW_AtomicInt"
                 /\ IF IntAtomicDecrement(refs) < 1
                    THEN TStep(t, dec, [thr[t] EXCEPT !.pc = "inplace"])
                    ELSE TStep(t, dec, [thr[t] EXCEPT !.pc = "scan"])
              \/ /\ op = "Clear" /\ variant = "COW_AtomicInt2"
                 /\ TStep(t, Gone(COW_AtomicInt2_Swap(COW_AtomicInt2_ctor(W, Tmp), thr[t].s, Tmp), Tmp),
                          [thr[t] EXCEPT !.pc = "tmp", !.nd = p])
              \/ /\ op \in {"Append", "Index"}
                 /\ IF IntAtomicCompare(refs, 1) > 0
                    THEN TStep(t, W, [thr[t] EXCEPT !.pc = clone, !.n = n])
                    ELSE TStep(t, W, [thr[t] EXCEPT !.pc = "inplace", !.n = n])

\* ++data_->refs, --data_->refs of the plain code: the read.
TRead(t) ==
  /\ At(t, "rd")
  /\ TStep(t, W, [thr[t] EXCEPT !.pc = "wr", !.r = Hdr(W, Src(t)).refs])

\* ++data_->refs, --data_->refs of the plain code: the write of the value
\* read, and what follows it up to the next look at shared memory. In the
\* atomic code: data_ = other.data_; IntAtomicIncrement( data_->refs ).
TWrite(t) ==
  /\ At(t, "wr")
  /\ LET p == Src(t)
         op == thr[t].op
         s == thr[t].s
         v == IF op = "Copy" THEN thr[t].r + 1 ELSE thr[t].r - 1
         lost == thr[t].stale \/ Hdr(W, p).refs # thr[t].r
         w == Unlocked(SetRefs(W, p, v), t)
     IN  IF variant \in AtomicVariants
         THEN TStep(t, Born([SetRefs(W, p, IntAtomicIncrement(Hdr(W, p).refs))
                               EXCEPT !.data_[s] = p], s), Return(t))
         ELSE \/ /\ op = "Destroy"
                 /\ IF v < 1
                    THEN TStep(t, w, [thr[t] EXCEPT !.pc = "del", !.lk = FALSE, !.stale = lost])
                    ELSE TStep(t, Gone(w, s), [Return(t) EXCEPT !.stale = lost])
              \/ /\ op = "Copy"
                 /\ TStep(t, Born([w EXCEPT !.data_[s] = p], s), [Return(t) EXCEPT !.stale = lost])
              \/ /\ op = "Clear"
                 /\ TStep(t, w, [thr[t] EXCEPT !.pc = "scan", !.lk = FALSE, !.stale = lost])
              \/ /\ op \in {"Append", "Index"}
                 /\ TStep(t, [w EXCEPT !.data_[s] = thr[t].nd],
                          [AfterUnique(t) EXCEPT !.stale = lost])

\* operator new of StringBuf, FastArena::Allocate up to the end of its scan:
\* the first block whose marker reads 0.
TScan(t) ==
  /\ At(t, "scan")
  /\ IF FirstFree(fa) >= ArenaEnd
     THEN TStep(t, [W EXCEPT !.failed = TRUE], thr[t])
     ELSE TStep(t, W, [thr[t] EXCEPT !.pc = "mark", !.nd = FirstFree(fa)])

\* FastArena::Allocate from IntAtomicIncrement on, then the constructor of
\* the StringBuf in the block: StringBuf() in Clear, StringBuf( other, n )
\* elsewhere. In COW_AtomicInt2: Clone.
TMark(t) ==
  /\ At(t, "mark")
  /\ LET p == Src(t)
         op == thr[t].op
         s == thr[t].s
         b == thr[t].nd
         new == [W EXCEPT !.fa = SetMarker(@, b, IntAtomicIncrement(Marker(@, b))),
                          !.blk = ((b + SizeofLong) :> StringBuf_ctor) @@ @,
                          !.ret = b + SizeofLong]
         made == IF variant = "COW_AtomicInt2" THEN COW_AtomicInt2_Clone(W, p, thr[t].n)
                 ELSE IF op = "Clear" THEN new
                 ELSE StringBuf_copy_body(new, new.ret, p, thr[t].n)
     IN  \/ /\ op \in {"Copy", "Clear"}
            /\ TStep(t, Born([made EXCEPT !.data_[s] = made.ret], s),
                     [Return(t) EXCEPT !.stale = @ \/ Marker(fa, b) # 0])
         \/ /\ op \in {"Append", "Index"}
            /\ TStep(t, made,
                     [thr[t] EXCEPT !.nd = made.ret, !.stale = @ \/ Marker(fa, b) # 0,
                                    !.pc = IF variant \in AtomicVariants THEN "dec" ELSE "rd"])

\* EnsureUnique of the atomic code after the clone:
\* if( IntAtomicDecrement( data_->refs ) < 1 ) ... else data_ = newdata.
TDec(t) ==
  /\ At(t, "dec")
  /\ LET p == Src(t)
         dec == SetRefs(W, p, IntAtomicDecrement(Hdr(W, p).refs))
     IN  IF IntAtomicDecrement(Hdr(W, p).refs) < 1
         THEN TStep(t, dec, [thr[t] EXCEPT !.pc = "undo"])
         ELSE TStep(t, [dec EXCEPT !.data_[thr[t].s] = thr[t].nd], AfterUnique(t))

\* delete newdata; data_->refs = 1;
TUndo(t) ==
  /\ At(t, "undo")
  /\ LET freed == IF variant = "COW_AtomicInt2" THEN COW_AtomicInt2_delete(W, thr[t].nd)
                  ELSE StringBuf_delete(W, thr[t].nd)
     IN  TStep(t, SetRefs(freed, Src(t), 1), AfterUnique(t))

\* The branch that keeps the buffer: data_->Clear() or Reserve( n ), then
\* data_->refs = 1.
TInPlace(t) ==
  /\ At(t, "inplace")
  /\ LET p == Src(t)
         s == thr[t].s
     IN  \/ /\ thr[t].op = "Clear"
            /\ TStep(t, SetRefs(StringBuf_Clear(W, p), p, 1), Return(t))
         \/ /\ thr[t].op \in {"Append", "Index"}
            /\ IF variant = "COW_AtomicInt2"
               THEN LET w == COW_AtomicInt2_Reserve(W, s, thr[t].n)
                    IN  TStep(t, SetRefs(w, w.data_[s], 1), AfterUnique(t))
               ELSE TStep(t, SetRefs(StringBuf_Reserve(W, p, thr[t].n), p, 1), AfterUnique(t))

\* data_->buf[data_->used++] = c; a store past the end of the array is
\* undefined.
TPut(t) ==
  /\ At(t, "put")
  /\ LET s == thr[t].s
         c == LongChar(t)
     IN  IF Hdr(W, Src(t)).used >= Hdr(W, Src(t)).len
         THEN TStep(t, [W EXCEPT !.ub = TRUE], thr[t])
         ELSE TStep(t, IF variant = "COW_AtomicInt2" THEN COW_AtomicInt2_put(W, s, c)
                       ELSE String_put(W, s, c), Return(t))

\* data_->refs = -1
TUnshare(t) ==
  /\ At(t, "unshare")
  /\ TStep(t, SetRefs(W, Src(t), 0 - 1), Return(t))

\* delete data_ of the destructor.
TDelete(t) ==
  /\ At(t, "del")
  /\ TStep(t, Gone(IF variant = "COW_AtomicInt2" THEN COW_AtomicInt2_delete(W, Src(t))
                   ELSE StringBuf_delete(W, Src(t)), thr[t].s), Return(t))

\* COW_AtomicInt2::String::Clear: the destructor of tmp, which took the
\* String's buffer in the swap.
TTmp(t) ==
  /\ Running
  /\ thr[t].pc \in {"tmp", "deltmp"}
  /\ LET old == thr[t].nd
         r == IntAtomicDecrement(heap[old].refs)
     IN  IF old \notin DOMAIN heap THEN TStep(t, [W EXCEPT !.ub = TRUE], thr[t])
         ELSE IF thr[t].pc = "deltmp" THEN TStep(t, COW_AtomicInt2_delete(W, old), Return(t))
         ELSE IF r < 1 THEN TStep(t, [W EXCEPT !.heap[old].refs = r], [thr[t] EXCEPT !.pc = "deltmp"])
         ELSE TStep(t, [W EXCEPT !.heap[old].refs = r], Return(t))

\* The buffer a thread is about to use has been released: the use is
\* undefined.
TDangling(t) ==
  /\ Running
  /\ thr[t].pc \notin {"idle", "tmp", "deltmp"}
  /\ ~LetGo(t)
  /\ Src(t) \notin Buffers(W)
  /\ TStep(t, [W EXCEPT !.ub = TRUE], thr[t])

NextThreads ==
  \E t \in Threads :
    \/ TBegin(t) \/ TLock(t) \/ TTest(t) \/ TRead(t) \/ TWrite(t)
    \/ TScan(t) \/ TMark(t) \/ TDec(t) \/ TUndo(t) \/ TInPlace(t)
    \/ TPut(t) \/ TUnshare(t) \/ TDelete(t) \/ TTmp(t) \/ TDangling(t)

SpecThreads == InitThreads /\ [][NextThreads]_vars

\* COW_Unsafe alone: the steps of the plain code without a lock.
InitUnsafe == InitThreads /\ variant = "COW_Unsafe"

NextUnsafe ==
  \E t \in Threads :
    \/ TBegin(t) \/ TTest(t) \/ TRead(t) \/ TWrite(t) \/ TScan(t) \/ TMark(t)
    \/ TInPlace(t) \/ TPut(t) \/ TUnshare(t) \/ TDelete(t) \/ TDangling(t)

SpecUnsafe == InitUnsafe /\ [][NextUnsafe]_vars

\* ------------------------------------ the locked variants, scheduled fairly
\* COW_CritSec and COW_Mutex with a scheduler that lets every thread that
\* can take a step take one in the end: a thread inside a member function
\* keeps running, and a thread waiting in EnterCriticalSection or
\* WaitForSingleObject gets the lock once it stays free. Nothing obliges a
\* thread to begin another call. Within MaxOps calls no thread of these
\* variants comes to work on a buffer that has been released.
InitFair == InitThreads /\ variant \in LockedVariants

\* The steps of thread t inside a member function.
Runs(t) ==
  \/ TLock(t) \/ TTest(t) \/ TRead(t) \/ TWrite(t) \/ TScan(t) \/ TMark(t)
  \/ TInPlace(t) \/ TPut(t) \/ TUnshare(t) \/ TDelete(t)

NextFair ==
  \E t \in Threads :
    \/ TBegin(t) \/ TLock(t) \/ TTest(t) \/ TRead(t) \/ TWrite(t) \/ TScan(t) \/ TMark(t)
    \/ TInPlace(t) \/ TPut(t) \/ TUnshare(t) \/ TDelete(t)

SpecFair == InitFair /\ [][NextFair]_vars /\ \A t \in Threads : WF_vars(Runs(t))

\* ------------------------------------------------ FastArena, one caller
\* The arena on its own, called the way its two owners call it:
\* Plain_FastAlloc::String passes the sizes of its char arrays to
\* fa.Allocate, and StringBuf's operator new passes sizeof(StringBuf) to the
\* fa of common-test.h. thr[1].held is what the caller has been handed and
\* has not given back.

\* The last block at or below p whose marker is not 0 (p itself if none is).
RECURSIVE TopUsed(_, _)
TopUsed(m, p) == IF p > 0 /\ Marker(m, p) = 0 THEN TopUsed(m, p - Stride) ELSE p

\* The caller gives back the highest block it holds, or one of the first
\* FreeWindow blocks of the arena.
FreeWindow == 2

\* The sizes passed to Allocate: a small one, the block size (the largest
\* that fits), and one byte more.
AllocSizes == {1, ArenaN, ArenaN + 1}

\* Pointers that are not null and not in the arena: before buf_, the end of
\* the arena, and past the end.
OutsidePtrs == {0 - SizeofLong, ArenaEnd, ArenaEnd + SizeofLong}

ArenaIdle == [pc |-> "idle", p |-> Null, held |-> {}]

Outstanding == UNION {thr[t].held : t \in DOMAIN thr}

InitArena ==
  /\ variant \in {"Plain_FastAlloc", "COW_AtomicInt"}
  /\ live = {}
  /\ data_ = <<>> /\ buf_ = <<>> /\ len_ = <<>> /\ used_ = <<>>
  /\ heap = <<>>
  /\ fa = FastArena_Init
  /\ blk = <<>>
  /\ nCopies = 0 /\ nAllocs = 0
  /\ failed = FALSE /\ ub = FALSE
  /\ built = <<>> /\ indexed = {} /\ last = NoOp
  /\ thr = <<ArenaIdle>>

\* One call on the arena: the state it leaves, what it was, and what the
\* caller holds afterwards.
ArenaCall(w, l, held) ==
  /\ Commit(w)
  /\ last' = l
  /\ thr' = [thr EXCEPT ![1].held = held]
  /\ UNCHANGED <<variant, built, indexed>>

\* What the caller holds after an allocation.
Taken(w) == IF w.failed THEN thr[1].held ELSE thr[1].held \cup {w.ret}

\* p = fa.Allocate( n );
ArenaAllocate(n) ==
  /\ Running
  /\ variant = "Plain_FastAlloc"
  /\ LET w == FastArena_Allocate(W, n)
     IN  ArenaCall(w, [NoOp EXCEPT !.op = "Allocate", !.n = n, !.s = w.ret], Taken(w))

\* p = new StringBuf;
ArenaNew ==
  /\ Running
  /\ variant \in CommonVariants
  /\ LET w == StringBuf_new(W)
     IN  ArenaCall(w, [NoOp EXCEPT !.op = "New", !.n = SizeofStringBuf, !.s = w.ret],
                   Taken(w))

\* fa.Deallocate( p ); or delete p; for a p the caller holds.
ArenaDeallocate(p) ==
  /\ Running
  /\ p \in thr[1].held
  /\ \/ p - SizeofLong < FreeWindow * Stride
     \/ p - SizeofLong = TopUsed(fa, ArenaEnd - Stride)
  /\ ArenaCall(IF variant \in CommonVariants THEN StringBuf_delete(W, p)
               ELSE FastArena_Deallocate(W, p),
               [NoOp EXCEPT !.op = "Deallocate", !.s = p], thr[1].held \ {p})

\* fa.Deallocate( 0 );
ArenaDeallocateNull ==
  /\ Running
  /\ ArenaCall(FastArena_Deallocate(W, Null), [NoOp EXCEPT !.op = "DeallocateNull"],
               thr[1].held)

\* fa.Deallocate( p ); for a p that is not in the arena.
ArenaDeallocateOutside(p) ==
  /\ Running
  /\ ArenaCall(FastArena_Deallocate(W, p),
               [NoOp EXCEPT !.op = "DeallocateOutside", !.s = p], thr[1].held)

NextArena ==
  \/ \E n \in AllocSizes : ArenaAllocate(n)
  \/ ArenaNew
  \/ \E p \in thr[1].held : ArenaDeallocate(p)
  \/ ArenaDeallocateNull
  \/ \E p \in OutsidePtrs : ArenaDeallocateOutside(p)

SpecArena == InitArena /\ [][NextArena]_vars

\* ------------------------------------------- FastArena, several callers
\* Allocate and Deallocate called from the threads, with FA_THREAD_SAFE: the
\* marker is changed by IntAtomicIncrement / IntAtomicDecrement, each one
\* step; the scan that finds the marker is a separate step before it.

\* The blocks one thread holds at a time.
MaxHeld == 2

InitArenaThreads ==
  /\ variant \in {"Plain_FastAlloc", "COW_AtomicInt"}
  /\ live = {}
  /\ data_ = <<>> /\ buf_ = <<>> /\ len_ = <<>> /\ used_ = <<>>
  /\ heap = <<>>
  /\ fa = FastArena_Init
  /\ blk = <<>>
  /\ nCopies = 0 /\ nAllocs = 0
  /\ failed = FALSE /\ ub = FALSE
  /\ built = <<>> /\ indexed = {} /\ last = NoOp
  /\ thr = [t \in Threads |-> ArenaIdle]

\* One step of a call on the arena by thread t.
ArenaStep(t, w, rec) ==
  /\ Commit(w)
  /\ thr' = [thr EXCEPT ![t] = rec]
  /\ UNCHANGED <<variant, built, indexed, last>>

\* Allocate( n ), n <= n_, up to the end of the scan: p is at the first block
\* whose marker is 0; bad_alloc if there is none.
AllocateScan(t) ==
  /\ Running
  /\ thr[t].pc = "idle"
  /\ Cardinality(thr[t].held) < MaxHeld
  /\ IF FirstFree(fa) >= ArenaEnd
     THEN ArenaStep(t, [W EXCEPT !.failed = TRUE], thr[t])
     ELSE ArenaStep(t, W, [thr[t] EXCEPT !.pc = "mark", !.p = FirstFree(fa)])

\* IntAtomicIncrement( *(long*)p ); return p+sizeof(long);
AllocateMark(t) ==
  /\ Running
  /\ thr[t].pc = "mark"
  /\ ArenaStep(t, [W EXCEPT !.fa = SetMarker(@, thr[t].p,
                                     IntAtomicIncrement(Marker(@, thr[t].p)))],
               [thr[t] EXCEPT !.pc = "idle", !.p = Null,
                              !.held = @ \cup {thr[t].p + SizeofLong}])

\* Deallocate( p ) of a block the thread holds.
DeallocateHeld(t, p) ==
  /\ Running
  /\ thr[t].pc = "idle"
  /\ p \in thr[t].held
  /\ ArenaStep(t, FastArena_Deallocate(W, p), [thr[t] EXCEPT !.held = @ \ {p}])

NextArenaThreads ==
  \/ \E t \in Threads : AllocateScan(t)
  \/ \E t \in Threads : AllocateMark(t)
  \/ \E t \in Threads : \E p \in thr[t].held : DeallocateHeld(t, p)

SpecArenaThreads == InitArenaThreads /\ [][NextArenaThreads]_vars

\* ------------------------------------------------------------ Lock<T>
\* The threads enter and leave scopes that hold a Lock<T> on the cs / m of
\* one StringBuf, as the member functions of COW_CritSec and COW_Mutex do:
\* Lock<T> l( data_->cs ); ... l.Unlock(); ... } with the scope left by its
\* end or by an exception (bad_alloc out of new StringBuf), before or after
\* the calls of Unlock.

\* The scopes one thread enters.
MaxScopes == 2
\* The calls of l.Unlock() in one scope.
MaxUnlocks == 2

\* The StringBuf whose lock is taken.
TheBuf == CHOOSE p \in DOMAIN blk : TRUE

\* A thread outside the scope: acq and rel count the calls of t_.Lock() and
\* t_.Unlock() its Lock objects have made, calls the calls of l.Unlock() in
\* the scope, exit how the scope was last left.
LockIdle ==
  [pc |-> "out", bLocked_ |-> FALSE, acq |-> 0, rel |-> 0, calls |-> 0,
   exit |-> "none"]

InitLock ==
  /\ variant \in LockedVariants
  /\ LET w == StringBuf_new(
                [live |-> {}, data_ |-> <<>>, buf_ |-> <<>>, len_ |-> <<>>,
                 used_ |-> <<>>, heap |-> <<>>, fa |-> FastArena_Init, blk |-> <<>>,
                 nCopies |-> 0, nAllocs |-> 0, failed |-> FALSE, ub |-> FALSE,
                 ret |-> Null])
     IN  fa = w.fa /\ blk = w.blk
  /\ live = {}
  /\ data_ = <<>> /\ buf_ = <<>> /\ len_ = <<>> /\ used_ = <<>>
  /\ heap = <<>>
  /\ nCopies = 0 /\ nAllocs = 0
  /\ failed = FALSE /\ ub = FALSE
  /\ built = <<>> /\ indexed = {} /\ last = NoOp
  /\ thr = [t \in Threads |-> LockIdle]

LockStep(t, w, rec) ==
  /\ Commit(w)
  /\ thr' = [thr EXCEPT ![t] = rec]
  /\ UNCHANGED <<variant, built, indexed, last>>

\* t_.Unlock() is called exactly when l.Unlock() finds bLocked_ set.
Released(w, bLocked_) == IF Lock_Unlock(w, TheBuf, bLocked_) # w THEN 1 ELSE 0

\* Lock<T> l( data_->cs ): bLocked_(true), t_.Lock(), which waits until the
\* lock is free.
LockAcquire(t) ==
  /\ Running
  /\ thr[t].pc = "out"
  /\ thr[t].acq < MaxScopes
  /\ ~blk[TheBuf].cs
  /\ LockStep(t, Lock_ctor(W, TheBuf),
              [thr[t] EXCEPT !.pc = "in", !.bLocked_ = TRUE, !.acq = @ + 1,
                             !.calls = 0, !.exit = "none"])

\* l.Unlock();
LockUnlock(t) ==
  /\ Running
  /\ thr[t].pc = "in"
  /\ thr[t].calls < MaxUnlocks
  /\ LockStep(t, Lock_Unlock(W, TheBuf, thr[t].bLocked_),
              [thr[t] EXCEPT !.bLocked_ = FALSE, !.calls = @ + 1,
                             !.rel = @ + Released(W, thr[t].bLocked_)])

\* An exception leaves the scope.
LockThrow(t) ==
  /\ Running
  /\ thr[t].pc = "in"
  /\ LockStep(t, W, [thr[t] EXCEPT !.pc = "thrown"])

\* ~Lock: Unlock(), at the end of the scope or while the stack is unwound.
LockDtor(t) ==
  /\ Running
  /\ thr[t].pc \in {"in", "thrown"}
  /\ LockStep(t, Lock_Unlock(W, TheBuf, thr[t].bLocked_),
              [thr[t] EXCEPT !.pc = "out", !.bLocked_ = FALSE,
                             !.rel = @ + Released(W, thr[t].bLocked_),
                             !.exit = IF thr[t].pc = "thrown" THEN "throw" ELSE "end"])

\* No handler takes the exception: the process ends, and the stack need not
\* be unwound.
LockTerminate(t) ==
  /\ Running
  /\ thr[t].pc = "thrown"
  /\ LockStep(t, [W EXCEPT !.failed = TRUE], thr[t])

NextLock ==
  \/ \E t \in Threads : LockAcquire(t)
  \/ \E t \in Threads : LockUnlock(t)
  \/ \E t \in Threads : LockThrow(t)
  \/ \E t \in Threads : LockDtor(t)
  \/ \E t \in Threads : LockTerminate(t)

SpecLock == InitLock /\ [][NextLock]_vars

\* ------------------------------- COW_AtomicInt and COW_AtomicInt2 side by side
\* One sequence of calls is run on Strings of COW_AtomicInt (the state
\* variables) and on Strings of COW_AtomicInt2 (thr, a second machine state).

InitPair ==
  /\ variant = "COW_AtomicInt"
  /\ live = {}
  /\ data_ = [h \in StrIds \cup {Tmp} |-> Null]
  /\ buf_ = <<>> /\ len_ = <<>> /\ used_ = <<>>
  /\ heap = <<>>
  /\ fa = FastArena_Init
  /\ blk = <<>>
  /\ nCopies = 0 /\ nAllocs = 0
  /\ failed = FALSE /\ ub = FALSE
  /\ built = <<>> /\ indexed = {} /\ last = NoOp
  /\ thr = [live |-> {}, data_ |-> [h \in StrIds \cup {Tmp} |-> Null],
            buf_ |-> <<>>, len_ |-> <<>>, used_ |-> <<>>, heap |-> <<>>,
            fa |-> FastArena_Init, blk |-> <<>>, nCopies |-> 0, nAllocs |-> 0,
            failed |-> FALSE, ub |-> FALSE, ret |-> Null]

\* One call made on both: w is what COW_AtomicInt leaves, w2 what
\* COW_AtomicInt2 leaves.
Both(w, w2, l) ==
  /\ Within(w) /\ Within(w2)
  /\ Commit(w)
  /\ thr' = [w2 EXCEPT !.ret = Null]
  /\ last' = l
  /\ UNCHANGED <<variant, built, indexed>>

BothRunning == Running /\ ~thr.failed /\ ~thr.ub

\* S s;
PairConstruct(s) ==
  /\ BothRunning
  /\ s \notin live
  /\ Both(String_ctor(W, s), COW_AtomicInt2_ctor(thr, s),
          [NoOp EXCEPT !.op = "Construct", !.s = s])

\* S s( other );
PairCopy(s, other) ==
  /\ BothRunning
  /\ s \notin live /\ other \in live
  /\ Both(COW_AtomicInt_copy(W, s, other), COW_AtomicInt2_copy(thr, s, other),
          [NoOp EXCEPT !.op = "Copy", !.s = s, !.from = other])

\* s leaves its scope.
PairDestroy(s) ==
  /\ BothRunning
  /\ s \in live
  /\ Both(COW_AtomicInt_dtor(W, s), COW_AtomicInt2_dtor(thr, s),
          [NoOp EXCEPT !.op = "Destroy", !.s = s])

\* s.Clear();
PairClear(s) ==
  /\ BothRunning
  /\ s \in live
  /\ Both(COW_AtomicInt_Clear(W, s), COW_AtomicInt2_Clear(thr, s),
          [NoOp EXCEPT !.op = "Clear", !.s = s])

\* s.Append( c );
PairAppend(s, c) ==
  /\ BothRunning
  /\ s \in live
  /\ String_Length(W, s) < MaxLen
  /\ Both(String_Append(W, s, c), COW_AtomicInt2_Append(thr, s, c),
          [NoOp EXCEPT !.op = "Append", !.s = s])

\* s[n];
PairIndex(s, n) ==
  /\ BothRunning
  /\ s \in live
  /\ n < String_Length(W, s) /\ n < COW_AtomicInt2_Length(thr, s)
  /\ Both(String_index(W, s, n), COW_AtomicInt2_index(thr, s, n),
          [NoOp EXCEPT !.op = "Index", !.s = s, !.n = n])

NextPair ==
  \/ \E s \in StrIds : PairConstruct(s)
  \/ \E s, other \in StrIds : PairCopy(s, other)
  \/ \E s \in StrIds : PairDestroy(s)
  \/ \E s \in StrIds : PairClear(s)
  \/ \E s \in StrIds, c \in Chars : PairAppend(s, c)
  \/ \E s \in StrIds, n \in 0..(MaxLen - 1) : PairIndex(s, n)

SpecPair == InitPair /\ [][NextPair]_vars

\* What the two Strings classes let a caller see of String s.
SameLength(s) == String_Length(W, s) = COW_AtomicInt2_Length(thr, s)

\* The character at index i - 1 of s: the same cell value, and one that was
\* written.
SameCharacters(s) ==
  \A i \in 1..String_Length(W, s) :
    /\ i <= COW_AtomicInt2_Length(thr, s)
    /\ Cells(W, s)[i] = thr.heap[thr.data_[s]].BUF[i]
    /\ Cells(W, s)[i] # Uninit

SameSharing(s, u) == (data_[s] = data_[u]) <=> (thr.data_[s] = thr.data_[u])

SameShareable(s) ==
  (blk[data_[s]].refs < 0) <=> (thr.heap[thr.data_[s]].refs < 0)

\* ------------------------------------------------- growth and allocation
\* The calls of Test on s and s2, with Strings long enough to grow twice.
\* The driver sets nAllocs and nCopies to 0 before each call, as Test does
\* before its timed loop (S::nAllocs = 0; S::nCopies = 0;), so after a call
\* they hold what that call added. operator[] is called with index 0 on any
\* String, as Test does whatever the length (nLen of the command line may be
\* 0).

\* The longest String.
GrowLen == 5

\* The machine state with the counters set to 0.
Zeroed == [W EXCEPT !.nCopies = 0, !.nAllocs = 0]

\* The cell at index n of s does not exist: the reference operator[] returns
\* is formed on a null pointer or past the end of the array.
NoCell(w, s, n) == ~w.failed /\ n >= Len(Cells(w, s))

\* The driver makes no call that takes a capacity past GrowCap (every clone
\* of COW_AtomicInt2 is half again as large as its source).
GrowCap == 12

GrowCall(w, l) ==
  /\ \A s \in w.live : Capacity(w, s) <= GrowCap
  /\ Do(w, l)
  /\ UNCHANGED <<built, indexed>>

\* S s;
GrowConstruct(s) ==
  /\ Running
  /\ s \notin live
  /\ GrowCall(S_ctor(Zeroed, s), [NoOp EXCEPT !.op = "Construct", !.s = s])

\* S s( other );
GrowCopy(s, other) ==
  /\ Running
  /\ s \notin live /\ other \in live
  /\ GrowCall(S_copy(Zeroed, s, other),
        [NoOp EXCEPT !.op = "Copy", !.s = s, !.from = other, !.pre = RefsOf(W, other)])

\* s leaves its scope.
GrowDestroy(s) ==
  /\ Running
  /\ s \in live
  /\ GrowCall(S_dtor(Zeroed, s), [NoOp EXCEPT !.op = "Destroy", !.s = s, !.pre = RefsOf(W, s)])

\* s.Clear();
GrowClear(s) ==
  /\ Running
  /\ s \in live
  /\ GrowCall(S_Clear(Zeroed, s), [NoOp EXCEPT !.op = "Clear", !.s = s, !.pre = RefsOf(W, s)])

\* s.Append( c ); the character is the one Test would append at that length.
GrowAppend(s) ==
  /\ Running
  /\ s \in live
  /\ S_Length(W, s) < GrowLen
  /\ LET c == LongChar(S_Length(W, s) + 1)
     IN  GrowCall(S_Append(Zeroed, s, c),
           [NoOp EXCEPT !.op = "Append", !.s = s, !.n = S_Length(W, s), !.val = c,
                        !.pre = RefsOf(W, s)])

\* s[0]; the call up to its return. Where the String has no cell 0 the
\* reference is formed on nothing: undefined, and the builds either go on or
\* stop there.
GrowIndex(s) ==
  /\ Running
  /\ s \in live
  /\ LET w == S_index(Zeroed, s, 0)
     IN  \E stop \in BOOLEAN :
           /\ stop => NoCell(w, s, 0)
           /\ GrowCall([w EXCEPT !.ub = stop],
                 [NoOp EXCEPT !.op = "Index", !.s = s, !.pre = RefsOf(W, s)])

InitGrow == Init

NextGrow ==
  \/ \E s \in StrIds : GrowConstruct(s)
  \/ \E s, other \in StrIds : GrowCopy(s, other)
  \/ \E s \in StrIds : GrowDestroy(s)
  \/ \E s \in StrIds : GrowClear(s)
  \/ \E s \in StrIds : GrowAppend(s)
  \/ \E s \in StrIds : GrowIndex(s)

SpecGrow == InitGrow /\ [][NextGrow]_vars

\* --------------------------------------------- the arena close to exhaustion
\* The harness's calls in a program whose other Strings, each on its own
\* empty buffer, have taken all blocks of the arena but a few: the next
\* new StringBuf, or the one after it, finds no marker at 0 and throws.
MaxSpare == 2

\* The StringBufs of the other Strings: the first k blocks of the arena.
OtherBufs(k) == {b + SizeofLong : b \in {c \in BlockStarts : c < k * Stride}}

InitFull ==
  /\ variant \in CommonVariants
  /\ live = {}
  /\ data_ = [h \in StrIds \cup {Tmp} |-> Null]
  /\ buf_ = [h \in StrIds |-> Null]
  /\ len_ = [h \in StrIds |-> 0]
  /\ used_ = [h \in StrIds |-> 0]
  /\ heap = <<>>
  /\ \E spare \in 1..MaxSpare :
       /\ fa = [b \in {c \in BlockStarts : c < (size - spare) * Stride} |-> 1]
       /\ blk = [p \in OtherBufs(size - spare) |-> StringBuf_ctor]
  /\ nCopies = 0
  /\ nAllocs = 0
  /\ failed = FALSE
  /\ ub = FALSE
  /\ built = <<>>
  /\ indexed = {}
  /\ last = NoOp
  /\ thr = <<>>

NextFull ==
  \/ \E s \in StrIds : GrowConstruct(s)
  \/ \E s, other \in StrIds : GrowCopy(s, other)
  \/ \E s \in StrIds : GrowDestroy(s)
  \/ \E s \in StrIds : GrowClear(s)
  \/ \E s \in StrIds : GrowAppend(s)
  \/ \E s \in StrIds : GrowIndex(s)

SpecFull == InitFull /\ [][NextFull]_vars

\* ------------------------------------------------------------- properties
\* C1: in every COW variant, between operations every live String references
\* one unreleased buffer; every referenced buffer has refs > 0 equal to the
\* number of live Strings referencing it, or refs = -1 with exactly one live
\* String referencing it; no unreleased buffer has refs = 0.
C1_RefsCountHolders ==
  variant \in CowVariants =>
    /\ \A s \in live : BufOf(W, s) \in Buffers(W)
    /\ \A p \in Buffers(W) :
         /\ Hdr(W, p).refs # 0
         /\ Holders(W, p) # {} =>
              \/ Hdr(W, p).refs > 0 /\ Hdr(W, p).refs = Cardinality(Holders(W, p))
              \/ Hdr(W, p).refs = 0 - 1 /\ Cardinality(Holders(W, p)) = 1

\* operator[] on one of two Strings sharing a buffer has detached it: the
\* caller holds an unshareable buffer of its own, the other String the old one.
C1_Witness ==
  /\ variant \in CowVariants
  /\ last.op = "IndexRead" /\ last.pre = 2
  /\ live = {1, 2}
  /\ data_[1] # data_[2]
  /\ RefsOf(W, last.s) = 0 - 1
  /\ \E o \in live \ {last.s} : RefsOf(W, o) = 1

\* C2: in every COW variant, when s and o share one buffer, Append or
\* operator[] (with or without a store through the reference) on o leaves
\* the length of s and every character of s below its length unchanged.
C2_WriterLeavesSharer ==
  [][\A s \in StrIds, o \in StrIds :
       ( /\ variant \in CowVariants
         /\ s # o /\ s \in live /\ o \in live
         /\ data_[s] = data_[o]
         /\ last'.s = o
         /\ last'.op \in {"Append", "IndexRead", "IndexWrite"} )
       => /\ s \in live'
          /\ S_Length(W, s)' = S_Length(W, s)
          /\ Text(W, s)' = Text(W, s)]_vars

\* A store through o[n] while o shared its buffer: the two Strings now differ.
C2_Witness ==
  /\ variant \in CowVariants
  /\ last.op = "IndexWrite" /\ last.pre = 2
  /\ live = {1, 2}
  /\ data_[1] # data_[2]
  /\ S_Length(W, 1) = S_Length(W, 2)
  /\ \E i \in 1..S_Length(W, 1) :
       /\ Cells(W, 1)[i] \in Chars /\ Cells(W, 2)[i] \in Chars
       /\ Cells(W, 1)[i] # Cells(W, 2)[i]

\* C3: in every COW variant, a copy construction from a String whose buffer
\* has refs > 0 makes the new String reference the same buffer, adds exactly 1
\* to refs and to nCopies and leaves nAllocs unchanged; destroying the copy
\* right after brings refs back to its value before the copy, nAllocs
\* still unchanged.
C3_ShallowCopy ==
  [][\A s \in StrIds, o \in StrIds :
       /\ ( /\ variant \in CowVariants
            /\ o \in live
            /\ RefsOf(W, o) > 0
            /\ last'.op = "Copy" /\ last'.s = s /\ last'.from = o )
          => /\ s \in live' /\ o \in live'
             /\ data_'[s] = data_[o]
             /\ data_'[o] = data_[o]
             /\ RefsOf(W, o)' = RefsOf(W, o) + 1
             /\ nCopies' = nCopies + 1
             /\ nAllocs' = nAllocs
       /\ ( /\ variant \in CowVariants
            /\ last.op = "Copy" /\ last.s = s /\ last.from = o /\ last.pre > 0
            /\ last'.op = "Destroy" /\ last'.s = s )
          => /\ o \in live'
             /\ data_'[o] = data_[o]
             /\ RefsOf(W, o)' = last.pre
             /\ nAllocs' = nAllocs]_vars

\* s2 was copied from an untouched s and destroyed: one copy, no allocation
\* (a StringBuf of common-test.h with no characters counts none).
C3_Witness ==
  /\ variant = "COW_AtomicInt"
  /\ last.op = "Destroy" /\ last.s = 2 /\ last.pre = 2
  /\ live = {1}
  /\ RefsOf(W, 1) = 1
  /\ nCopies = 1 /\ nAllocs = 0


\* Every cell has been written: reading it yields one character.
Determined(cells) == \A i \in 1..Len(cells) : cells[i] \in Chars

\* C4: in every COW variant a buffer produced as a clone of a buffer X has
\* X's used and X's first used characters, whether the clone is made by a
\* copy construction from an unshareable String or by Append or operator[] on
\* a String that shares its buffer (Append then adds its character after
\* them, a store through the reference replaces the one at its index).
C4_CloneKeepsContent ==
  [][\A s \in StrIds, o \in StrIds :
       /\ ( /\ variant \in CowVariants
            /\ o \in live
            /\ RefsOf(W, o) < 0
            /\ last'.op = "Copy" /\ last'.s = s /\ last'.from = o )
          => /\ S_Length(W, s)' = S_Length(W, o)
             /\ Text(W, s)' = Text(W, o)
             /\ Determined(Text(W, s))'
       /\ ( /\ variant \in CowVariants
            /\ s \in live
            /\ RefsOf(W, s) > 1
            /\ last'.s = s
            /\ last'.op \in {"Append", "IndexRead", "IndexWrite"} )
          => /\ S_Length(W, s)' =
                  S_Length(W, s) + (IF last'.op = "Append" THEN 1 ELSE 0)
             /\ Determined(Text(W, s))'
             /\ \A i \in 1..S_Length(W, s) :
                  (last'.op = "IndexWrite" /\ i = last'.n + 1)
                  \/ Text(W, s)'[i] = Text(W, s)[i]]_vars

\* s2 was copied from s after s[0] made s unshareable: the clone's first
\* character was never written.
C4_Witness ==
  /\ variant \in CommonVariants
  /\ last.op = "Copy" /\ last.pre = 0 - 1
  /\ live = {1, 2}
  /\ S_Length(W, 1) = 1 /\ S_Length(W, 2) = 1
  /\ Cells(W, 1)[1] \in Chars
  /\ Cells(W, 2)[1] = Uninit

\* C5: in every COW variant, operator[] on s leaves the buffer of s with
\* refs = -1 and s its only holder; a copy construction from s in that state
\* gives the copy a buffer that did not exist, with refs = 1, leaves the
\* buffer of s at refs = -1 and adds exactly 1 to nCopies.
C5_IndexMarksUnshareable ==
  [][\A s \in StrIds, o \in StrIds :
       /\ ( /\ variant \in CowVariants
            /\ s \in live
            /\ last'.s = s
            /\ last'.op \in {"IndexRead", "IndexWrite"} )
          => /\ s \in live'
             /\ RefsOf(W, s)' = 0 - 1
             /\ Holders(W, BufOf(W, s))' = {s}
       /\ ( /\ variant \in CowVariants
            /\ o \in live
            /\ RefsOf(W, o) = 0 - 1
            /\ last'.op = "Copy" /\ last'.s = s /\ last'.from = o )
          => /\ s \in live' /\ o \in live'
             /\ data_'[o] = data_[o]
             /\ data_'[s] # data_[o]
             /\ data_'[s] \notin Buffers(W)
             /\ RefsOf(W, s)' = 1
             /\ RefsOf(W, o)' = 0 - 1
             /\ nCopies' = nCopies + 1]_vars

\* s2 was copied from s while s was unshareable.
C5_Witness ==
  /\ variant \in CowVariants
  /\ last.op = "Copy" /\ last.pre = 0 - 1
  /\ live = {1, 2}
  /\ data_[1] # data_[2]
  /\ RefsOf(W, 1) = 0 - 1
  /\ RefsOf(W, 2) = 1
  /\ nCopies = 1

\* Nothing is allocated: no buffer, no char array, no arena block.
AllReleased == Buffers(W) = {} /\ heap = <<>> /\ blk = <<>> /\ fa = FastArena_Init

\* C7: in every COW variant, the destructor of s takes 1 from refs of the
\* buffer of s and releases that buffer exactly when the result is below 1
\* (an unshareable buffer goes from -1 to -2 and is released); no step
\* releases a buffer a live String still references or releases anything
\* twice, and when no String is left nothing is left allocated.
C7_DestructorReleases ==
  [][(variant \in CowVariants) =>
       /\ \A s \in StrIds, p \in Buffers(W) :
            (s \in live /\ BufOf(W, s) = p /\ last'.op = "Destroy" /\ last'.s = s) =>
              /\ s \notin live'
              /\ IF Hdr(W, p).refs - 1 < 1
                 THEN p \notin Buffers(W)'
                 ELSE /\ p \in Buffers(W)'
                      /\ Hdr(W, p)'.refs = Hdr(W, p).refs - 1
       /\ \A s \in live' : BufOf(W, s)' \in Buffers(W)'
       /\ ~ub'
       /\ (live' = {} => AllReleased')]_vars

\* The last String, unshareable, has been destroyed and its buffer released.
C7_Witness ==
  /\ variant \in CowVariants
  /\ last.op = "Destroy" /\ last.pre = 0 - 1
  /\ live = {}
  /\ nCopies = 1
  /\ AllReleased

\* C8: in the COW variants of common-test.h, Clear on a String whose buffer
\* has refs > 1 takes 1 from that buffer's refs, gives the String a buffer
\* that did not exist, empty and with refs = 1, and leaves used, len and the
\* characters of the old buffer as they were; Clear on a String whose buffer
\* has refs <= 1 keeps the buffer and sets used = len = 0 and refs = 1.
C8_Clear ==
  [][\A s \in StrIds, p \in Buffers(W) :
       ( /\ variant \in CommonVariants
         /\ s \in live
         /\ data_[s] = p
         /\ last'.op = "Clear" /\ last'.s = s )
       => IF Hdr(W, p).refs > 1
          THEN /\ p \in Buffers(W)'
               /\ Hdr(W, p)'.refs = Hdr(W, p).refs - 1
               /\ Hdr(W, p)'.used = Hdr(W, p).used
               /\ Hdr(W, p)'.len = Hdr(W, p).len
               /\ CellsAt(W, p)' = CellsAt(W, p)
               /\ \E q \in Buffers(W)' \ Buffers(W) :
                    data_'[s] = q /\ Hdr(W, q)' = StringBuf_ctor
          ELSE /\ data_'[s] = p
               /\ p \in Buffers(W)'
               /\ Hdr(W, p)'.used = 0
               /\ Hdr(W, p)'.len = 0
               /\ Hdr(W, p)'.refs = 1]_vars

\* Clear on one of two Strings sharing a one-character buffer: the other
\* still has its character.
C8_Witness ==
  /\ variant \in CommonVariants
  /\ last.op = "Clear" /\ last.pre = 2
  /\ live = {1, 2}
  /\ S_Length(W, last.s) = 0
  /\ RefsOf(W, last.s) = 1
  /\ \E o \in live \ {last.s} : S_Length(W, o) = 1 /\ RefsOf(W, o) = 1


\* C6 as the specification states it: in every COW variant, a copy
\* construction from a String on which operator[] has been called since it
\* was constructed or last cleared never shares the buffer.
C6_IndexedNeverShared ==
  [][\A s \in StrIds, o \in StrIds :
       ( /\ variant \in CowVariants
         /\ o \in live
         /\ o \in indexed
         /\ last'.op = "Copy" /\ last'.s = s /\ last'.from = o )
       => data_'[s] # data_[o]]_vars

\* C6: in every COW variant, operator[] on s leaves the buffer of s
\* unshareable (refs < 0); it stays so through every step that is not
\* Append or Clear on s or the destruction of s, and a copy construction from
\* s in that state never shares the buffer; Append and Clear on s make the
\* buffer of s shareable again (refs = 1).
C6_UnshareableUntilAppendOrClear ==
  [][\A s \in StrIds, o \in StrIds :
       /\ ( /\ variant \in CowVariants
            /\ s \in live
            /\ last'.s = s
            /\ last'.op \in {"IndexRead", "IndexWrite"} )
          => RefsOf(W, s)' < 0
       /\ ( /\ variant \in CowVariants
            /\ s \in live
            /\ RefsOf(W, s) < 0
            /\ ~(last'.s = s /\ last'.op \in {"Append", "Clear", "Destroy"}) )
          => s \in live' /\ RefsOf(W, s)' < 0
       /\ ( /\ variant \in CowVariants
            /\ o \in live
            /\ RefsOf(W, o) < 0
            /\ last'.op = "Copy" /\ last'.s = s /\ last'.from = o )
          => data_'[s] # data_[o]
       /\ ( /\ variant \in CowVariants
            /\ s \in live
            /\ RefsOf(W, s) < 0
            /\ last'.s = s
            /\ last'.op \in {"Append", "Clear"} )
          => RefsOf(W, s)' = 1]_vars

\* s[n], then s.Append(c), then S s2(s): the copy shares the buffer of s.
C6_Witness ==
  /\ variant \in CowVariants
  /\ last.op = "Copy" /\ last.pre = 1
  /\ 1 \in indexed
  /\ live = {1, 2}
  /\ data_[1] = data_[2]
  /\ RefsOf(W, 1) = 2
  /\ S_Length(W, 1) = 2

\* The capacities a String takes as it grows by single Appends from `len`,
\* up to the last one a block of the Plain_FastAlloc arena can hold.
RECURSIVE LastFit(_)
LastFit(len) ==
  IF RoundUp4(Needed(len, len + 1)) > FastArena_n(DefaultN) THEN len
  ELSE LastFit(RoundUp4(Needed(len, len + 1)))

\* The longest String Plain_FastAlloc can build by Appends (2840).
ArenaLimit == LastFit(0)

\* C9 as the specification states it: in every hand-written variant, every
\* Append to a String built from a newly default-constructed one succeeds,
\* and after the k-th Append Length() is k.
C9_AppendAlwaysSucceeds ==
  last.op = "Append" =>
    /\ ~failed
    /\ 1 \in live
    /\ S_Length(W, 1) = last.n

\* C9: in every hand-written variant but Plain_FastAlloc, the k-th Append to
\* a newly default-constructed String succeeds and leaves Length() = k; in
\* Plain_FastAlloc this holds up to k = ArenaLimit, and the Append after that
\* throws bad_alloc, the arena having no block of the size Reserve asks for.
C9_AppendSucceedsWithinArena ==
  last.op = "Append" =>
    IF variant = "Plain_FastAlloc" /\ last.n > ArenaLimit
    THEN failed /\ last.n = ArenaLimit + 1
    ELSE /\ ~failed
         /\ 1 \in live
         /\ S_Length(W, 1) = last.n

\* The Append that finds the Plain_FastAlloc buffer full at ArenaLimit
\* characters has thrown.
C9_Witness ==
  /\ variant = "Plain_FastAlloc"
  /\ last.op = "Append"
  /\ last.n = ArenaLimit + 1
  /\ failed
  /\ used_[1] = ArenaLimit
  /\ len_[1] = ArenaLimit

\* C10: in every hand-written variant, a String built alone by Appends of
\* c1..ck, with any number of reads through operator[] in between, has
\* Length() = k and yields c(i+1) at every index i < k, whatever number of
\* times its buffer has grown; each read returned the character appended at
\* its index.
C10_BuildRoundTrip ==
  1 \in live =>
    /\ ~failed
    /\ S_Length(W, 1) = Len(built)
    /\ \A i \in 1..Len(built) : ReadAt(W, 1, i - 1) = {built[i]}
    /\ last.op = "IndexRead" => last.val = built[last.n + 1]

\* BuildLen characters, not all the same, have been appended, the buffer has
\* grown past its second capacity, and the first character was read back.
C10_Witness ==
  /\ Len(built) = BuildLen
  /\ 1 \in live
  /\ Capacity(W, 1) > 8
  /\ last.op = "IndexRead" /\ last.n = 0
  /\ last.val = built[1]
  /\ built[1] # built[BuildLen]


\* C11: in every hand-written variant, Clear on a String of Length 0 (newly
\* constructed, or cleared before, any number of times) ends without an
\* error, leaves the String alive with Length 0 and the other String as it
\* was; and the Append that follows a Clear of a String succeeds and leaves
\* Length 1.
C11_ClearEmptyIdempotent ==
  [][\A s \in StrIds :
       /\ (/\ last'.op = "Clear" /\ last'.s = s
           /\ s \in live /\ S_Length(W, s) = 0)
          => /\ ~failed' /\ ~ub'
             /\ s \in live'
             /\ S_Length(W, s)' = 0
             /\ \A o \in live \ {s} : o \in live' /\ Text(W, o)' = Text(W, o)
       /\ (/\ last.op = "Clear" /\ last.s = s
           /\ last'.op = "Append" /\ last'.s = s)
          => /\ ~failed' /\ ~ub'
             /\ S_Length(W, s)' = 1]_vars

\* A Plain_FastAlloc String that never held a buffer (nothing was ever
\* allocated) has been cleared: fa.Deallocate was given the null pointer.
C11_Witness ==
  /\ variant = "Plain_FastAlloc"
  /\ last.op = "Clear" /\ last.s = 1
  /\ nAllocs = 0
  /\ 1 \in live
  /\ ~failed /\ ~ub
  /\ S_Length(W, 1) = 0


\* The places of a member function where the next step writes into the
\* String's buffer in place: Reserve or Clear and refs = 1, the character
\* store, refs = -1, and refs = 1 after the clone was dropped.
InPlacePcs == {"inplace", "put", "unshare", "undo"}

\* Thread t has a String that references buffer p: one of its live Strings
\* whose data_ is p, unless Clear has given that reference up already and is
\* creating the String's new buffer; or the local String of
\* COW_AtomicInt2's Clear.
HeldBy(t, p) ==
  \/ \E h \in HandlesOf(t) \cap live :
       /\ data_[h] = p
       /\ ~(LetGo(t) /\ thr[t].s = h)
  \/ thr[t].pc = "tmp" /\ thr[t].nd = p

\* C12: in COW_AtomicInt, COW_AtomicInt2, COW_CritSec and COW_Mutex, with
\* threads that call copy, destructor, Clear, Append and operator[] on their
\* own Strings only, no thread is about to write into a buffer in place
\* while a String of another thread references that buffer.
C12_NoWriteWhileShared ==
  variant \in AtomicVariants \cup LockedVariants =>
    \A t \in Threads :
      (thr[t].pc \in InPlacePcs /\ Src(t) \in Buffers(W)) =>
        \A u \in Threads \ {t} : ~HeldBy(u, Src(t))


\* Every thread has called Append, once, and nothing else.
OnlyAppends == \A t \in Threads : thr[t].ops <= 1 /\ thr[t].op \in {"none", "Append"}
AllAppended == \A t \in Threads : thr[t].ops = 1 /\ thr[t].op = "Append" /\ thr[t].pc = "idle"

\* Nothing is allocated but the buffers the threads' Strings hold: no
\* StringBuf, no character array, and no arena block in use beyond them.
NoLeak ==
  LET held == {data_[t] : t \in Threads} IN
  /\ Buffers(W) = held
  /\ variant # "COW_AtomicInt2" =>
       /\ DOMAIN heap = {blk[p].buf : p \in held} \ {Null}
       /\ \A b \in BlockStarts : Marker(fa, b) = IF b + SizeofLong \in held THEN 1 ELSE 0

\* C13: in COW_AtomicInt, COW_AtomicInt2, COW_CritSec and COW_Mutex, when
\* the threads' Strings all share one buffer and every thread calls Append
\* once, no step uses a released buffer, releases one twice or stores outside
\* one, and when all have returned the Strings are on pairwise distinct
\* buffers with refs 1 and nothing else is left allocated.
C13_AppendersDetach ==
  (variant \in AtomicVariants \cup LockedVariants /\ OnlyAppends) =>
    /\ ~ub
    /\ AllAppended =>
         /\ \A t, u \in Threads : t # u => data_[t] # data_[u]
         /\ \A t \in Threads : data_[t] \in Buffers(W) /\ RefsOf(W, t) = 1
         /\ NoLeak


\* A thread of COW_Unsafe has written refs, or marked an arena block, from a
\* value another thread had changed since this thread read it.
Raced == \E t \in Threads : thr[t].stale

\* refs of every buffer is the number of live Strings on it, or -1 with one.
RefsMatch ==
  /\ \A h \in live : data_[h] \in Buffers(W)
  /\ \A p \in Buffers(W) :
       \/ Hdr(W, p).refs = Cardinality(Holders(W, p))
       \/ Hdr(W, p).refs = 0 - 1 /\ Cardinality(Holders(W, p)) = 1

\* C14: in COW_Unsafe with two threads on one shared buffer, refs can only
\* come to differ from the number of Strings on the buffer, and a released
\* buffer can only come to be used, through a read-modify-write of refs (or
\* of an arena marker) that another thread's write fell into: as long as no
\* thread has written from a stale read, nothing undefined has happened and,
\* between calls, refs matches the Strings. (That such a state is reachable
\* is what the witness shows.)
C14_MismatchOnlyByRace ==
  ~Raced =>
    /\ ~ub
    /\ (\A t \in Threads : thr[t].pc = "idle") => RefsMatch

\* Both threads are between calls, Strings of both are on one buffer, and
\* that buffer's refs is 1: each thread's next Append or operator[] will
\* take the buffer for its own and write in place. No arena block was
\* handed out twice on the way.
C14_Witness ==
  /\ variant = "COW_Unsafe"
  /\ \A t \in Threads : thr[t].pc = "idle"
  /\ ~ub
  /\ \A b \in BlockStarts : Marker(fa, b) <= 1
  /\ \E h, g \in live :
       /\ Owner(h) # Owner(g)
       /\ data_[h] = data_[g]
       /\ data_[h] \in Buffers(W)
       /\ RefsOf(W, h) = 1


\* Every marker of the arena is non-zero.
Full(m) == \A b \in BlockStarts : Marker(m, b) # 0

\* The size the arena of the variant under test was constructed with.
ArenaArg == IF variant = "Plain_FastAlloc" THEN DefaultN ELSE SizeofStringBuf

\* C15: n_ is the constructor's argument rounded up to a multiple of 4.
\* Allocate(n) with n > n_, and Allocate with every marker non-zero, throw
\* bad_alloc and leave every marker (and what the caller holds) as it was; so
\* new StringBuf throws once 100 StringBufs are live.
C15_AllocateFails ==
  [][/\ ArenaN % 4 = 0 /\ ArenaN >= ArenaArg /\ ArenaN < ArenaArg + 4
     /\ (last'.op = "Allocate" /\ (last'.n > ArenaN \/ Full(fa)))
          => (failed' /\ fa' = fa /\ thr' = thr)
     /\ (last'.op = "New" /\ Cardinality(DOMAIN blk) = size)
          => (failed' /\ fa' = fa /\ blk' = blk /\ thr' = thr)]_vars

\* 100 StringBufs are live and creating one more has thrown.
C15_Witness ==
  /\ last.op = "New"
  /\ failed
  /\ Cardinality(DOMAIN blk) = size
  /\ Full(fa)

\* C16: with one caller, a successful Allocate returns a block whose marker
\* was 0, sets that marker to 1 and no other, and the block is none the
\* caller already holds; Allocate succeeds whenever n <= n_ and a marker is 0.
\* Deallocate of a block the caller holds sets that block's marker to 0 and
\* no other, so the scan of a later Allocate can stop at it. Deallocate(0)
\* changes no marker and does not throw.
C16_AllocateDeallocate ==
  [][/\ (last'.op \in {"Allocate", "New"} /\ ~failed') =>
          LET b == last'.s - SizeofLong
          IN  /\ b \in BlockStarts
              /\ Marker(fa, b) = 0
              /\ fa' = SetMarker(fa, b, 1)
              /\ last'.s \notin Outstanding
              /\ Outstanding' = Outstanding \cup {last'.s}
     /\ (last'.op \in {"Allocate", "New"} /\ last'.n <= ArenaN /\ ~Full(fa)) => ~failed'
     /\ (last'.op = "Deallocate") =>
          LET b == last'.s - SizeofLong
          IN  /\ Marker(fa, b) = 1
              /\ fa' = SetMarker(fa, b, 0)
              /\ FirstFree(fa') <= b
              /\ Outstanding' = Outstanding \ {last'.s}
              /\ ~failed' /\ ~ub'
     /\ (last'.op = "DeallocateNull") => (fa' = fa /\ ~failed' /\ ~ub')
     /\ \A b \in BlockStarts :
          Marker(fa', b) = IF b + SizeofLong \in Outstanding' THEN 1 ELSE 0]_vars

\* Allocate has just returned a block below another block the caller holds:
\* a block that was given back and is handed out again.
C16_Witness ==
  /\ last.op \in {"Allocate", "New"}
  /\ ~failed
  /\ \E q \in Outstanding : q > last.s

\* C17: Deallocate(p) with p not null and outside the arena's bytes (below
\* buf_, or at or beyond buf_ + 100*(n_+sizeof(long))) throws bad_alloc and
\* changes no marker.
C17_OutsideRejected ==
  [][(last'.op = "DeallocateOutside") => (failed' /\ ~ub' /\ fa' = fa)]_vars

\* C18: with FA_THREAD_SAFE, however the threads' Allocate and Deallocate
\* calls interleave, no block is held by two callers, every marker is 0 or 1,
\* and a marker is 1 exactly when a caller holds the block (or is between
\* finding the block and returning it).
C18_OneHolderPerBlock ==
  /\ \A t, u \in Threads : t # u => thr[t].held \cap thr[u].held = {}
  /\ \A b \in BlockStarts : Marker(fa, b) \in {0, 1}
  /\ \A b \in BlockStarts :
       (b + SizeofLong \in Outstanding) => Marker(fa, b) = 1
  /\ \A b \in BlockStarts :
       Marker(fa, b) = 1 =>
         \/ b + SizeofLong \in Outstanding
         \/ \E t \in Threads : thr[t].pc = "mark" /\ thr[t].p = b

\* C19: a Lock<T> takes the lock in its constructor and gives it back once:
\* t_.Unlock() is never called more often than t_.Lock(); inside the scope the
\* lock is held by the thread exactly while bLocked_ is set, so after an
\* explicit Unlock() neither a later Unlock() nor the destructor releases
\* again; once the scope is left, by its end or by an exception, every
\* t_.Lock() has had its t_.Unlock(). The lock is taken exactly while some
\* thread's Lock has bLocked_ set, and at most one has.
C19_ReleasedOncePerAcquire ==
  /\ \A t \in Threads :
       /\ thr[t].rel <= thr[t].acq
       /\ thr[t].bLocked_ <=> (thr[t].acq = thr[t].rel + 1)
       /\ ~thr[t].bLocked_ <=> (thr[t].acq = thr[t].rel)
       /\ thr[t].pc = "out" => ~thr[t].bLocked_
  /\ blk[TheBuf].cs <=> (\E t \in Threads : thr[t].bLocked_)
  /\ \A t, u \in Threads : (thr[t].bLocked_ /\ thr[u].bLocked_) => t = u

\* A scope was left by an exception without any call of Unlock(), the
\* destructor has released the lock, and another thread has taken it since.
C19_Witness ==
  \E t, u \in Threads :
    /\ thr[t].pc = "out" /\ thr[t].exit = "throw" /\ thr[t].calls = 0
    /\ thr[t].acq = 1 /\ thr[t].rel = 1
    /\ u # t /\ thr[u].pc = "in" /\ thr[u].bLocked_
    /\ blk[TheBuf].cs

\* C20: after every single-threaded sequence of default constructions, copy
\* constructions, destructions, Clear, Append and operator[] calls, the
\* Strings of COW_AtomicInt2 and of COW_AtomicInt show the same: the same
\* Strings exist, each has the same Length() and the same character at every
\* index below it, the same Strings share a buffer, and the same buffers are
\* unshareable.
C20_SameBehaviour ==
  /\ live = thr.live
  /\ failed = thr.failed /\ ub = thr.ub
  /\ BothRunning =>
       /\ \A s \in live : SameLength(s) /\ SameCharacters(s) /\ SameShareable(s)
       /\ \A s, u \in live : SameSharing(s, u)

\* The call logged as l deep-copies a buffer: Append or operator[] on a
\* String whose buffer is shared, or a copy of a String whose buffer is
\* unshareable.
IsClone(l) ==
  /\ variant \in CowVariants
  /\ \/ l.op \in {"Append", "Index"} /\ l.s \in live /\ RefsOf(W, l.s) > 1
     \/ l.op = "Copy" /\ l.from \in live /\ RefsOf(W, l.from) < 1

\* The buffer that call copies, and the minimum capacity it passes.
CloneOf(l) == IF l.op = "Copy" THEN data_[l.from] ELSE data_[l.s]
CloneMin(l) ==
  CASE l.op = "Copy" -> 0
    [] l.op = "Append" -> Hdr(W, CloneOf(l)).used + 1
    [] OTHER -> Hdr(W, CloneOf(l)).len

\* The call logged as l grows a buffer in place: Append on a String whose
\* buffer is not shared and is full.
IsGrowth(l) ==
  /\ variant \in CowVariants
  /\ l.op = "Append" /\ l.s \in live
  /\ RefsOf(W, l.s) <= 1
  /\ Capacity(W, l.s) < S_Length(W, l.s) + 1

\* C21 as the specification states it: in every COW variant every growth and
\* every clone adds exactly 1 to nAllocs, the clone of a buffer of capacity 0
\* with minimum capacity 0 included.
C21_EveryCloneCounts ==
  [][(IsClone(last') \/ IsGrowth(last')) => nAllocs' = Zeroed.nAllocs + 1]_vars

\* C21: in every COW variant every growth and every clone adds exactly 1 to
\* nAllocs, except that in the variants of common-test.h the clone of a
\* buffer of capacity 0 with minimum capacity 0 allocates no array and adds
\* nothing (COW_AtomicInt2 allocates the header and adds 1).
C21_EveryAllocationCounts ==
  [][(IsClone(last') \/ IsGrowth(last')) =>
       nAllocs' = Zeroed.nAllocs +
         (IF /\ variant \in CommonVariants
             /\ IsClone(last')
             /\ Hdr(W, CloneOf(last')).len = 0
             /\ CloneMin(last') = 0
          THEN 0 ELSE 1)]_vars

\* s2[0] on an empty s2 that shared its buffer, in a variant of
\* common-test.h: s2 is on a buffer of its own and nAllocs was not touched.
C21_Witness ==
  /\ variant \in CommonVariants
  /\ last.op = "Index" /\ last.pre = 2
  /\ ~ub
  /\ live = {1, 2}
  /\ data_[1] # data_[2]
  /\ Capacity(W, last.s) = 0
  /\ nAllocs = 0

\* C22: in every COW variant the buffer created as a clone of X with minimum
\* capacity n has capacity max(1.5 * capacity(X), n) rounded up to a multiple
\* of 4 (0 when that maximum is 0).
C22_CloneCapacity ==
  [][\A s \in StrIds :
       (IsClone(last') /\ last'.s = s) =>
         /\ ~failed'
         /\ data_'[s] # CloneOf(last')
         /\ Capacity(W, s)' =
              RoundUp4(Needed(Hdr(W, CloneOf(last')).len, CloneMin(last')))]_vars

\* The call logged as l grows the buffer of its String in place: Append on a
\* String whose buffer is full and not shared (the Plain variants share
\* nothing).
GrowsInPlace(l) ==
  /\ l.op = "Append" /\ l.s \in live
  /\ RefsOf(W, l.s) <= 1
  /\ Capacity(W, l.s) < S_Length(W, l.s) + 1

\* C23: in every hand-written variant, after every call each String's
\* buffer has used <= capacity and a capacity that is a multiple of 4; a
\* growth in place to hold n characters leaves capacity
\* max(1.5 * old capacity, n) rounded up to a multiple of 4, which is never
\* less than before.
C23_CapacityInvariant ==
  [][/\ ~failed'
     /\ \A s \in live' :
          /\ S_Length(W, s)' <= Capacity(W, s)'
          /\ Capacity(W, s)' % 4 = 0
          /\ Capacity(W, s)' = Len(Cells(W, s))'
     /\ \A s \in StrIds :
          (GrowsInPlace(last') /\ last'.s = s) =>
            /\ Capacity(W, s)' =
                 RoundUp4(Needed(Capacity(W, s), S_Length(W, s) + 1))
            /\ Capacity(W, s)' >= Capacity(W, s)
            /\ Capacity(W, s)' >= S_Length(W, s) + 1]_vars

\* The fifth Append to a String that has its buffer to itself: the capacity
\* went from 4 to 8.
C23_Witness ==
  /\ last.op = "Append" /\ last.n = 4 /\ last.pre <= 1
  /\ last.s \in live
  /\ S_Length(W, last.s) = 5
  /\ Capacity(W, last.s) = 8

\* C24: in every COW variant, Append( c ) on a String of length k, whether
\* its buffer was shared, exclusive or unshareable, leaves the String the
\* only holder of its buffer with refs 1, capacity >= k + 1, Length k + 1 and
\* c at index k; where the buffer was shared, it is still there with one
\* reference less.
C24_Append ==
  [][\A s \in StrIds : \A p \in Buffers(W) :
       (variant \in CowVariants /\ last'.op = "Append" /\ last'.s = s /\ p = data_[s]) =>
         /\ ~failed'
         /\ (LET q == data_[s] IN Holders(W, q) = {s} /\ q \in Buffers(W))'
         /\ RefsOf(W, s)' = 1
         /\ Capacity(W, s)' >= S_Length(W, s) + 1
         /\ S_Length(W, s)' = S_Length(W, s) + 1
         /\ Cells(W, s)'[S_Length(W, s) + 1] = last'.val
         /\ (Hdr(W, p).refs > 1) =>
              /\ data_'[s] # p
              /\ (p \in Buffers(W))'
              /\ Hdr(W, p)'.refs = Hdr(W, p).refs - 1
              /\ Holders(W, p)' = Holders(W, p) \ {s}]_vars

\* Append to a String that shared its buffer with the other one: the other
\* String keeps the old buffer and its k characters.
C24_Witness ==
  /\ variant \in CowVariants
  /\ last.op = "Append" /\ last.pre = 2 /\ last.n = 2
  /\ live = StrIds
  /\ data_[1] # data_[2]
  /\ S_Length(W, last.s) = 3
  /\ \A s \in StrIds : RefsOf(W, s) = 1

\* Thread t leaves pc with this step.
Leaves(t, pc) == thr[t].pc = pc /\ thr'[t].pc # pc

\* String s of thread t is on buffer p, and no other String is: none of
\* thread t, and none another thread still holds a reference through.
OnlyHolder(t, s, p) ==
  /\ s \in live /\ data_[s] = p
  /\ \A h \in (HandlesOf(t) \cap live) \ {s} : data_[h] # p
  /\ \A u \in Threads \ {t} : ~HeldBy(u, p)

\* C25: in COW_AtomicInt and COW_AtomicInt2, under every interleaving, the
\* thread that saw refs > 1 in EnsureUnique and built a clone decrements
\* refs and then either (a), on a result >= 1, adopts the clone and leaves the
\* original to its other holders, or (b), on a result < 1, keeps the
\* original, releases the clone and sets refs to 1, no String of another
\* thread being on the original then; the clone adopted is on no other
\* String, the clone released exists and is on no String, and neither step
\* leaves an allocated buffer without a holder.
C25_CloneThenDecrement ==
  [][\A t \in Threads : \A s \in {thr[t].s} : \A p \in {Src(t)} : \A nd \in {thr[t].nd} :
       /\ (variant \in AtomicVariants /\ Leaves(t, "dec") /\ Hdr(W, p).refs - 1 >= 1) =>
            /\ data_'[s] = nd /\ nd # p
            /\ nd \in Buffers(W) /\ Holders(W, nd) = {}
            /\ Holders(W, nd)' = {s}
            /\ (p \in Buffers(W))'
            /\ Hdr(W, p)'.refs = Hdr(W, p).refs - 1
            /\ Holders(W, p)' = Holders(W, p) \ {s}
            /\ \E u \in Threads : HeldBy(u, p)'
       /\ (variant \in AtomicVariants /\ Leaves(t, "dec") /\ Hdr(W, p).refs - 1 < 1) =>
            /\ thr'[t].pc = "undo"
            /\ data_'[s] = p
            /\ OnlyHolder(t, s, p)
       /\ (variant \in AtomicVariants /\ Leaves(t, "undo")) =>
            /\ nd \in Buffers(W) /\ Holders(W, nd) = {}
            /\ ~ub'
            /\ (nd \notin Buffers(W))'
            /\ data_'[s] = p
            /\ (p \in Buffers(W))'
            /\ Hdr(W, p)'.refs = 1
            /\ OnlyHolder(t, s, p)']_vars


\* The places of a member function where the next step allocates or
\* releases memory: operator new of a StringBuf (the arena's scan and mark,
\* and the constructor's Reserve), delete of a StringBuf, and Reserve or
\* Clear of the buffer kept.
MemoryPcs == {"scan", "mark", "del", "undo", "inplace"}

\* C26: in COW_CritSec and COW_Mutex, no thread allocates or releases
\* memory in the destructor, the copy constructor, Clear or EnsureUnique
\* while it holds the buffer's lock.
C26_NoMemoryUnderLock ==
  variant \in LockedVariants =>
    \A t \in Threads : thr[t].pc \in MemoryPcs => ~thr[t].lk

\* Every thread has called Clear on its String, once, and nothing else.
OnlyClears == \A t \in Threads : thr[t].ops <= 1 /\ thr[t].op \in {"none", "Clear"}
AllCleared == \A t \in Threads : thr[t].ops = 1 /\ thr[t].op = "Clear" /\ thr[t].pc = "idle"

\* The buffer the threads' Strings share at the start: the first StringBuf
\* of the arena.
FirstBuf == FirstFree(FastArena_Init) + SizeofLong

\* C27: in COW_AtomicInt, when two threads each have a String on one buffer
\* with refs 2 and each calls Clear, under every interleaving nothing
\* undefined happens and no allocation fails; the shared buffer is
\* truncated only by a step of the thread whose decrement left refs below 1;
\* and when both have returned, one String is on the original buffer and the
\* other on another one, both have length 0 and refs 1, and nothing else is
\* left allocated.
C27_TwoClears ==
  [][(variant = "COW_AtomicInt" /\ OnlyClears') =>
       /\ ~ub' /\ ~failed'
       /\ (FirstBuf \in Buffers(W))'
       /\ (Hdr(W, FirstBuf)' # Hdr(W, FirstBuf) /\ Hdr(W, FirstBuf).refs < 1) =>
            \E t \in Threads :
              /\ thr[t].pc = "inplace" /\ thr'[t].pc = "idle"
              /\ data_[t] = FirstBuf
              /\ \A u \in Threads \ {t} : ~HeldBy(u, FirstBuf)
       /\ (Hdr(W, FirstBuf)'.used # Hdr(W, FirstBuf).used) => Hdr(W, FirstBuf).refs < 1
       /\ AllCleared' =>
            /\ Cardinality({t \in Threads : data_'[t] = FirstBuf}) = 1
            /\ \A t, u \in Threads : (t # u) => (data_'[t] # data_'[u])
            /\ \A t \in Threads :
                 (data_[t] \in Buffers(W) /\ RefsOf(W, t) = 1 /\ S_Length(W, t) = 0)'
            /\ NoLeak']_vars

\* Both threads have returned from Clear: thread 1's String is on a new
\* buffer, thread 2's on the original, and both are empty.
C27_Witness ==
  /\ variant = "COW_AtomicInt"
  /\ AllCleared
  /\ ~ub /\ ~failed
  /\ data_[2] = FirstBuf /\ data_[1] # FirstBuf
  /\ \A t \in Threads : S_Length(W, t) = 0 /\ RefsOf(W, t) = 1

\* C28: in COW_AtomicInt2, Clear always leaves the String on a buffer that
\* did not exist before, with used 0, capacity 0 and refs 1, and counts one
\* allocation; the previous buffer loses one reference through the
\* destructor of tmp: it is released if no other String was on it, and
\* otherwise stays as it was but for refs, which is one less.
C28_ClearSwaps ==
  [][\A s \in StrIds, p \in Buffers(W) :
       ( /\ variant = "COW_AtomicInt2"
         /\ s \in live
         /\ data_[s] = p
         /\ last'.op = "Clear" /\ last'.s = s )
       => /\ ~failed' /\ ~ub'
          /\ \E q \in Buffers(W)' \ Buffers(W) :
               data_'[s] = q /\ Hdr(W, q)' = Glommed(0, 0, 1, NewChars(0))
          /\ nAllocs' = Zeroed.nAllocs + 1
          /\ live' = live
          /\ IF Holders(W, p) = {s}
             THEN (p \notin Buffers(W))'
             ELSE /\ (p \in Buffers(W))'
                  /\ Hdr(W, p)' = [Hdr(W, p) EXCEPT !.refs = @ - 1]
                  /\ Holders(W, p)' = Holders(W, p) \ {s}]_vars

\* Clear on one of two Strings that shared a buffer of two characters: the
\* other String still has them, on a buffer with refs 1.
C28_Witness ==
  /\ variant = "COW_AtomicInt2"
  /\ last.op = "Clear" /\ last.pre = 2
  /\ live = StrIds
  /\ S_Length(W, last.s) = 0 /\ Capacity(W, last.s) = 0 /\ RefsOf(W, last.s) = 1
  /\ \E o \in live \ {last.s} : S_Length(W, o) = 2 /\ RefsOf(W, o) = 1

\* C29: in COW_CritSec and COW_Mutex under fair scheduling, every member
\* function a thread has begun returns, unless an allocation failed.
C29_OperationsComplete ==
  \A t \in Threads : (thr[t].pc # "idle") ~> (thr[t].pc = "idle" \/ failed)

\* C30: in the COW variants of common-test.h, when new StringBuf throws in
\* Clear or in EnsureUnique (Append, operator[]) on a String whose buffer is
\* shared, nothing has changed: the String is on its buffer, the heap and
\* the arena are as before, and the buffer's refs is the number of live
\* Strings on it.
C30_FailureChangesNothing ==
  [][\A s \in StrIds, p \in Buffers(W) :
       ( /\ variant \in CommonVariants
         /\ s \in live /\ data_[s] = p
         /\ Hdr(W, p).refs > 1
         /\ last'.op \in {"Clear", "Append", "Index"} /\ last'.s = s
         /\ failed' )
       => /\ data_' = data_ /\ live' = live
          /\ heap' = heap /\ fa' = fa
          /\ (p \in Buffers(W))'
          /\ Hdr(W, p)'.refs = Cardinality(Holders(W, p)')
          /\ blk' = blk]_vars

\* The blocks of the arena in use, by the pointers Allocate returned for them.
InUse == {b + SizeofLong : b \in {c \in BlockStarts : Marker(fa, c) # 0}}

\* The objects the arena backs: the character buffers of the live Strings
\* in Plain_FastAlloc, the StringBufs not yet deleted elsewhere.
Backed ==
  IF variant = "Plain_FastAlloc" THEN {buf_[s] : s \in live} \ {Null}
  ELSE DOMAIN blk

\* C31: with one thread, as long as every call has succeeded, every marker
\* of the arena is 0 or 1 and the blocks in use are as many as the objects
\* the arena backs (they are those objects' blocks): in Plain_FastAlloc the
\* live Strings whose buf_ is not null, in the COW variants of common-test.h
\* the StringBufs not released.
C31_BlocksMatchObjects ==
  (variant \in FastAllocVariants /\ Running) =>
    /\ DOMAIN fa \subseteq BlockStarts
    /\ \A b \in DOMAIN fa : fa[b] \in {0, 1}
    /\ InUse = Backed
    /\ Cardinality(InUse) =
         IF variant = "Plain_FastAlloc"
         THEN Cardinality({s \in live : buf_[s] # Null})
         ELSE Cardinality(DOMAIN blk)

\* Plain_FastAlloc: a String copied from an empty one. fa.Allocate( 0 ) gave
\* the copy a block, so both Strings have a buffer and two blocks are in use.
C31_Witness ==
  /\ variant = "Plain_FastAlloc"
  /\ Running
  /\ last.op = "Copy" /\ len_[last.s] = 0
  /\ live = StrIds
  /\ \A s \in live : buf_[s] # Null
  /\ Cardinality(InUse) = 2
====
